---- MODULE Spec2Model ----
(***************************************************************************)
(* Groovify: a multi-page analytics dashboard over the Chinook database.   *)
(*                                                                         *)
(* The model has two layers.                                               *)
(*   - The query library: each SQL template is an operator from the        *)
(*     database tables and the bound parameters to the result table, as    *)
(*     PostgreSQL evaluates the template (CASE branches top-down, window   *)
(*     frames, HAVING, ORDER BY, LIMIT).                                   *)
(*   - The pages: one script run is a walk through the page's sections,    *)
(*     each calling run_query and then shaping and charting the result.    *)
(*                                                                         *)
(* Conventions.  A date is a day number; CURRENT_DATE is Today.  Money is  *)
(* an integer number of cents (Chinook's NUMERIC(10,2)), so ROUND(x, 2)    *)
(* of a sum of totals is the sum itself and the dollar thresholds of the   *)
(* templates are multiplied by 100.  The invoice table carries, for each   *)
(* invoice, the number of its invoice_line rows (items).                   *)
(***************************************************************************)
EXTENDS Integers, Sequences, FiniteSets, Bags, TLC

VARIABLES
    invoice,        \* the invoice table, a bag of rows
    track_sales,    \* per track, the number of its invoice_line rows
    df,             \* the table the last query call returned
    page,           \* the page whose script is running, or "none"
    pc,             \* the next step of the running script
    screen,         \* the elements the running script has rendered so far
    engine_built,   \* whether create_engine succeeds in this process
    last_call,      \* the last call of run_query and how it ended
    session,        \* st.session_state
    fig,            \* the last call of a chart-building function
    cache,          \* the st.cache_data store of run_sql_query
    sent,           \* the statements the SQL Explorer sent to the database
    executed        \* the calls of pd.read_sql of the running script, in order

dbVars == <<invoice, track_sales>>
queryVars == <<invoice, track_sales, df>>
toolVars == <<fig, cache, sent, executed>>
pageVars == <<page, pc, screen, engine_built, last_call, session, toolVars>>
vars == <<invoice, track_sales, df, page, pc, screen, engine_built, last_call,
          session, fig, cache, sent, executed>>

(***************************************************************************)
(* Bounds of the model.                                                    *)
(***************************************************************************)
Today == 400
MaxRfmInvoices == 5

Customers == {1, 2}
Tracks == {1, 2, 3}

(***************************************************************************)
(* Helpers: aggregates over a bag of rows.                                 *)
(***************************************************************************)
RECURSIVE SetSum(_, _)
SetSum(f, S) ==
    IF S = {} THEN 0
    ELSE LET x == CHOOSE y \in S : TRUE
         IN  f[x] + SetSum(f, S \ {x})

SetMax(S) == CHOOSE m \in S : \A e \in S : e <= m

\* COUNT(*), SUM(total), MAX(invoice_date) of the rows of table tbl in R
CountRows(tbl, R) == SetSum([r \in R |-> tbl[r]], R)
SumTotal(tbl, R) == SetSum([r \in R |-> tbl[r] * r.total], R)
MaxDate(R) == SetMax({r.invoice_date : r \in R})

\* x BETWEEN lo AND hi
Between(x, lo, hi) == lo <= x /\ x <= hi

Null == <<>>

NoResult == [query |-> "none", caller |-> "none", params |-> <<>>, rows |-> {}]

NoCall == [made |-> FALSE, engine_built |-> TRUE, execution_ok |-> TRUE,
           raised |-> FALSE, errors |-> <<>>, columns |-> {}, rows |-> <<>>,
           invocations |-> <<>>]

NoFig == [function |-> "none"]

\* No script is running and the session is new
InitPage ==
    /\ page = "none"
    /\ pc = "idle"
    /\ screen = <<>>
    /\ last_call = NoCall
    /\ session = [finance_sidebar_initialized |-> FALSE,
                  finance_date_from |-> Null, finance_date_to |-> Null,
                  tables_df |-> Null, tables_df_error |-> Null,
                  stats_df |-> Null, stats_df_error |-> Null]
    /\ fig = NoFig
    /\ cache = <<>>
    /\ sent = {}
    /\ executed = <<>>

\* An empty database, no script run yet
Init ==
    /\ invoice = EmptyBag
    /\ track_sales = [t \in Tracks |-> 0]
    /\ df = NoResult
    /\ InitPage
    /\ engine_built = TRUE

(***************************************************************************)
(* get_rfm_clustering_query: customer_rfm groups the invoices of the       *)
(* window by customer (an inner join: a customer with no invoice in the    *)
(* window has no row), then the CASE labels each row.  The columns of      *)
(* customer_music_preferences are left out: no branch of the CASE reads    *)
(* them and the LEFT JOIN neither adds nor removes a row.                  *)
(***************************************************************************)
\* A CASE whose New Customers branch would come before Potential Loyalists
RfmClusterNewFirstBug(recency_days, frequency, monetary) ==
    IF recency_days <= 90 /\ frequency >= 5 /\ monetary >= 4000
        THEN "Champions"
    ELSE IF recency_days <= 90 /\ frequency >= 3 /\ monetary >= 2500
        THEN "Loyal Customers"
    ELSE IF recency_days <= 90 /\ frequency < 3
        THEN "New Customers"
    ELSE IF recency_days <= 180 /\ frequency >= 2
        THEN "Potential Loyalists"
    ELSE IF recency_days > 180 /\ recency_days <= 365
        THEN "At Risk"
    ELSE IF recency_days > 365
        THEN "Lost"
    ELSE "Others"

RfmClusterMonetaryBug(recency_days, frequency, monetary) ==
    CASE recency_days <= 90 /\ frequency >= 5 /\ monetary > 4000
            -> "Champions"
      [] recency_days <= 90 /\ frequency >= 3 /\ monetary >= 2500
            -> "Loyal Customers"
      [] recency_days <= 180 /\ frequency >= 2
            -> "Potential Loyalists"
      [] recency_days <= 90 /\ frequency < 3
            -> "New Customers"
      [] recency_days > 180 /\ recency_days <= 365
            -> "At Risk"
      [] recency_days > 365
            -> "Lost"
      [] OTHER -> "Others"

RfmCluster(recency_days, frequency, monetary) ==
    IF recency_days <= 90 /\ frequency >= 5 /\ monetary >= 4000
        THEN "Champions"
    ELSE IF recency_days <= 90 /\ frequency >= 3 /\ monetary >= 2500
        THEN "Loyal Customers"
    ELSE IF recency_days <= 180 /\ frequency >= 2
        THEN "Potential Loyalists"
    ELSE IF recency_days <= 90 /\ frequency < 3
        THEN "New Customers"
    ELSE IF recency_days > 180 /\ recency_days <= 365
        THEN "At Risk"
    ELSE IF recency_days > 365
        THEN "Lost"
    ELSE "Others"

\* customer_rfm whose MAX(i.invoice_date) would read every invoice of the
\* customer
CustomerRfmAllTimeRecencyBug(tbl, start_date, end_date) ==
    LET InWin(c) == {r \in DOMAIN tbl :
                        /\ r.customer_id = c
                        /\ Between(r.invoice_date, start_date, end_date)}
    IN  { [customer_id  |-> c,
           recency_days |-> Today - MaxDate({r \in DOMAIN tbl :
                                               r.customer_id = c}),
           frequency    |-> CountRows(tbl, InWin(c)),
           monetary     |-> SumTotal(tbl, InWin(c))] :
          c \in {c \in Customers : InWin(c) # {}} }
CustomerRfm(tbl, start_date, end_date) ==
    LET InWin(c) == {r \in DOMAIN tbl :
                        /\ r.customer_id = c
                        /\ Between(r.invoice_date, start_date, end_date)}
    IN  { [customer_id  |-> c,
           recency_days |-> Today - MaxDate(InWin(c)),
           frequency    |-> CountRows(tbl, InWin(c)),
           monetary     |-> SumTotal(tbl, InWin(c))] :
          c \in {c \in Customers : InWin(c) # {}} }

RfmClusteringQuery(tbl, params) ==
    { [customer_id  |-> r.customer_id,
       recency_days |-> r.recency_days,
       frequency    |-> r.frequency,
       monetary     |-> r.monetary,
       rfm_cluster  |-> RfmCluster(r.recency_days, r.frequency, r.monetary)] :
      r \in CustomerRfm(tbl, params[1], params[2]) }

(***************************************************************************)
(* The database is external: invoices appear in it between script runs.    *)
(* A result table is a local of one script run: the run executes its       *)
(* query once and the table does not outlive the run.                      *)
(***************************************************************************)
EndRun ==
    /\ df # NoResult
    /\ df' = NoResult
    /\ fig' = NoFig
    /\ UNCHANGED <<dbVars, page, pc, screen, engine_built, last_call, session,
                   cache, sent, executed>>

InvoiceRow(c, age, total, items) ==
    [customer_id |-> c, invoice_date |-> Today - age, total |-> total,
     items |-> items]

RfmInvoices ==
    { InvoiceRow(1, age, total, 1) :
        age \in {90, 91, 180, 181, 365, 366}, total \in {700, 800, 900} }
    \cup { InvoiceRow(2, 91, 800, 1), InvoiceRow(2, 366, 900, 1) }

Insert(rows, limit) ==
    /\ df = NoResult
    /\ BagCardinality(invoice) < limit
    /\ \E r \in rows : invoice' = invoice (+) SetToBag({r})

InsertRfmInvoice ==
    /\ Insert(RfmInvoices, MaxRfmInvoices)
    /\ UNCHANGED <<track_sales, df, pageVars>>

\* The analysis periods the date input of a view can hold
Windows == { <<Today - 366, Today>>, <<Today - 366, Today - 91>> }

\* customers.py, Clustering view: run_query(get_rfm_clustering_query(),
\* (start_d, end_d, start_d, end_d))
ClusteringView ==
    /\ df = NoResult
    /\ \E w \in Windows :
         LET params == <<w[1], w[2], w[1], w[2]>>
         IN  df' = [query  |-> "rfm_clustering", caller |-> "Clustering view",
                    params |-> params,
                    rows   |-> RfmClusteringQuery(invoice, params)]
    /\ UNCHANGED <<dbVars, pageVars>>

(***************************************************************************)
(* C1.  Every row of the RFM clustering result carries the label of the    *)
(* first branch, in the order Champions, Loyal Customers, Potential        *)
(* Loyalists, New Customers, At Risk, Lost, whose condition holds on its   *)
(* (recency_days, frequency, monetary), and Others when none holds; two    *)
(* rows with the same triple carry the same label; (90, 5, 40.00) is       *)
(* Champions and no row with recency 91 is.                                *)
(***************************************************************************)
C1_RfmDecisionTree ==
    df.query = "rfm_clustering" =>
      /\ \A row \in df.rows :
           LET r == row.recency_days
               f == row.frequency
               m == row.monetary
               champions == r <= 90 /\ f >= 5 /\ m >= 4000
               loyal     == r <= 90 /\ f >= 3 /\ m >= 2500
               potential == r <= 180 /\ f >= 2
               new       == r <= 90 /\ f < 3
               atRisk    == 180 < r /\ r <= 365
               lost      == r > 365
               before2   == champions
               before3   == before2 \/ loyal
               before4   == before3 \/ potential
               before5   == before4 \/ new
               before6   == before5 \/ atRisk
               before7   == before6 \/ lost
           IN  /\ row.rfm_cluster = "Champions" <=> champions
               /\ row.rfm_cluster = "Loyal Customers" <=> loyal /\ ~before2
               /\ row.rfm_cluster = "Potential Loyalists"
                      <=> potential /\ ~before3
               /\ row.rfm_cluster = "New Customers" <=> new /\ ~before4
               /\ row.rfm_cluster = "At Risk" <=> atRisk /\ ~before5
               /\ row.rfm_cluster = "Lost" <=> lost /\ ~before6
               /\ row.rfm_cluster = "Others" <=> ~before7
               /\ (r = 90 /\ f = 5 /\ m = 4000) => row.rfm_cluster = "Champions"
               /\ r = 91 => row.rfm_cluster # "Champions"
      /\ \A a, b \in df.rows :
           (/\ a.recency_days = b.recency_days
            /\ a.frequency = b.frequency
            /\ a.monetary = b.monetary) => a.rfm_cluster = b.rfm_cluster

\* The Clustering view has returned a customer at exactly (90, 5, 40.00),
\* labelled Champions, beside a customer at recency 91.
C1_Witness ==
    /\ df.query = "rfm_clustering"
    /\ \E row \in df.rows :
         /\ row.recency_days = 90 /\ row.frequency = 5 /\ row.monetary = 4000
         /\ row.rfm_cluster = "Champions"

(***************************************************************************)
(* A nullable column is <<>> (NULL) or <<v>>.  A comparison with NULL is   *)
(* unknown, and a WHEN whose condition is unknown is not taken.            *)
(***************************************************************************)IsNull(x) == x = <<>>
Ge(x, v) == ~IsNull(x) /\ x[1] >= v
Gt(x, v) == ~IsNull(x) /\ x[1] > v
Le(x, v) == ~IsNull(x) /\ x[1] <= v

(***************************************************************************)
(* get_churn_analysis_query, parameters (start_date, end_date,             *)
(* active_months, risk_months): every customer has a row (LEFT JOIN, the   *)
(* window in the ON clause); the aggregates of a customer with no invoice  *)
(* in the window are NULL, COUNT is 0.                                     *)
(***************************************************************************)
ChurnStatusStrictBug(days_since_last_purchase, active_months, risk_months) ==
    IF IsNull(days_since_last_purchase) THEN "Never Purchased"
    ELSE IF days_since_last_purchase[1] < active_months * 30 THEN "Active"
    ELSE IF days_since_last_purchase[1] < risk_months * 30 THEN "At Risk"
    ELSE "Churn Risk"

ChurnStatus(days_since_last_purchase, active_months, risk_months) ==
    IF IsNull(days_since_last_purchase) THEN "Never Purchased"
    ELSE IF Le(days_since_last_purchase, active_months * 30) THEN "Active"
    ELSE IF Le(days_since_last_purchase, risk_months * 30) THEN "At Risk"
    ELSE "Churn Risk"

ValueTier(total_value) ==
    IF Ge(total_value, 5000) THEN "High"
    ELSE IF Ge(total_value, 2500) THEN "Medium"
    ELSE IF Gt(total_value, 0) THEN "Low"
    ELSE "Zero"

CustomerActivity(tbl, start_date, end_date) ==
    LET InWin(c) == {r \in DOMAIN tbl :
                        /\ r.customer_id = c
                        /\ Between(r.invoice_date, start_date, end_date)}
    IN  { [customer_id  |-> c,
           total_orders |-> CountRows(tbl, InWin(c)),
           total_value  |-> IF InWin(c) = {} THEN Null
                            ELSE <<SumTotal(tbl, InWin(c))>>,
           days_since_last_purchase |->
                            IF InWin(c) = {} THEN Null
                            ELSE <<Today - MaxDate(InWin(c))>>] :
          c \in Customers }

ChurnAnalysisQuery(tbl, params) ==
    { [customer_id  |-> r.customer_id,
       total_orders |-> r.total_orders,
       total_value  |-> r.total_value,
       days_since_last_purchase |-> r.days_since_last_purchase,
       churn_status |-> ChurnStatus(r.days_since_last_purchase,
                                    params[3], params[4]),
       value_tier   |-> ValueTier(r.total_value)] :
      r \in CustomerActivity(tbl, params[1], params[2]) }

CHURN_MONTHS_DEFAULT == 6

ChurnInvoices ==
    { InvoiceRow(c, age, 2500, 1) :
        c \in Customers, age \in {90, 91, 180, 181} }

MaxChurnInvoices == 3

InsertChurnInvoice ==
    /\ Insert(ChurnInvoices, MaxChurnInvoices)
    /\ UNCHANGED <<track_sales, df, pageVars>>

\* The month thresholds a caller of the template can bind
MonthThresholds == {3, 6}

\* run_query(get_churn_analysis_query(), (start, end, active, risk))
RunChurnQuery ==
    /\ df = NoResult
    /\ \E w \in Windows, active_months, risk_months \in MonthThresholds :
         LET params == <<w[1], w[2], active_months, risk_months>>
         IN  df' = [query  |-> "churn_analysis", caller |-> "run_query",
                    params |-> params,
                    rows   |-> ChurnAnalysisQuery(invoice, params)]
    /\ UNCHANGED <<dbVars, pageVars>>

\* customers.py, Churn Analysis view: run_query(get_churn_analysis_query(),
\* (start_d, end_d, churn_months, churn_months // 2))
ChurnViewParams(start_d, end_d) ==
    LET churn_months == CHURN_MONTHS_DEFAULT
    IN  <<start_d, end_d, churn_months, churn_months \div 2>>

ChurnAnalysisView ==
    /\ df = NoResult
    /\ \E w \in Windows :
         LET params == ChurnViewParams(w[1], w[2])
         IN  df' = [query  |-> "churn_analysis",
                    caller |-> "Churn Analysis view",
                    params |-> params,
                    rows   |-> ChurnAnalysisQuery(invoice, params)]
    /\ UNCHANGED <<dbVars, pageVars>>

(***************************************************************************)
(* C2.  With active-month threshold A and risk-month threshold R, a row    *)
(* of the churn result is Never Purchased when days_since_last_purchase    *)
(* is NULL, else Active when days <= 30*A, else At Risk when days <= 30*R, *)
(* else Churn Risk; with R > A, exactly 30*A days is Active and 30*A + 1   *)
(* days is At Risk.                                                        *)
(***************************************************************************)
C2_ChurnStatus ==
    df.query = "churn_analysis" =>
      LET A == df.params[3]
          R == df.params[4]
      IN  \A row \in df.rows :
            LET d == row.days_since_last_purchase
            IN  /\ IsNull(d) <=> row.total_orders = 0
                /\ IsNull(d) => row.churn_status = "Never Purchased"
                /\ ~IsNull(d) =>
                     /\ d[1] <= 30 * A => row.churn_status = "Active"
                     /\ (d[1] > 30 * A /\ d[1] <= 30 * R)
                            => row.churn_status = "At Risk"
                     /\ (d[1] > 30 * A /\ d[1] > 30 * R)
                            => row.churn_status = "Churn Risk"
                     /\ (R > A /\ d[1] = 30 * A)
                            => row.churn_status = "Active"
                     /\ (R > A /\ d[1] = 30 * A + 1)
                            => row.churn_status = "At Risk"

\* With R > A, one customer is at exactly 30*A days (Active), another at
\* 30*A + 1 days (At Risk).
C2_Witness ==
    /\ df.query = "churn_analysis"
    /\ df.params[4] > df.params[3]
    /\ \E a, b \in df.rows :
         /\ a.days_since_last_purchase = <<30 * df.params[3]>>
         /\ a.churn_status = "Active"
         /\ b.days_since_last_purchase = <<30 * df.params[3] + 1>>
         /\ b.churn_status = "At Risk"

(***************************************************************************)
(* C3.  Each time the Churn Analysis view runs the churn query, the value  *)
(* bound to the risk-month placeholder (the fourth) is strictly greater    *)
(* than the value bound to the active-month placeholder (the third).       *)
(***************************************************************************)
C3_ViewRiskAboveActive ==
    (df.query = "churn_analysis" /\ df.caller = "Churn Analysis view")
        => df.params[4] > df.params[3]


(***************************************************************************)
(* get_revenue_anomalies_query, parameters (days, critical drop, warning   *)
(* drop).  daily_revenue sums the invoices of each date of the analysed    *)
(* period; revenue_with_avg averages the rows of the frame ROWS BETWEEN 6  *)
(* PRECEDING AND 1 PRECEDING, which is NULL only when the frame is empty;  *)
(* anomalies keeps the rows whose rolling_avg IS NOT NULL and labels       *)
(* them; the final SELECT keeps the rows not labelled Normal, latest       *)
(* first.                                                                  *)
(*                                                                         *)
(* rolling_avg is kept as the exact fraction sum / n.  The deviation       *)
(* (daily_revenue - rolling_avg) / rolling_avg * 100 is compared with a    *)
(* threshold by cross-multiplication: PostgreSQL's NUMERIC division keeps  *)
(* 16 or more fractional digits, and a deviation of cent amounts over at   *)
(* most 6 rows that is not exactly on a threshold is further from it than  *)
(* that.  revenue_change_pct is in hundredths of a percent, ROUND(x, 2)    *)
(* rounding half away from zero.                                           *)
(***************************************************************************)
RECURSIVE SortAsc(_)
SortAsc(S) ==
    IF S = {} THEN <<>>
    ELSE LET m == CHOOSE x \in S : \A y \in S : x <= y
         IN  <<m>> \o SortAsc(S \ {m})

Reverse(s) == [i \in 1..Len(s) |-> s[Len(s) + 1 - i]]

RoundHalfAway(num, den) ==
    IF num >= 0 THEN (2 * num + den) \div (2 * den)
    ELSE -((2 * (-num) + den) \div (2 * den))

DailyRevenue(tbl, days) ==
    LET rows  == {r \in DOMAIN tbl : r.invoice_date >= Today - days}
        dates == SortAsc({r.invoice_date : r \in rows})
    IN  [i \in 1..Len(dates) |->
            [revenue_date  |-> dates[i],
             daily_revenue |->
                 SumTotal(tbl, {r \in rows : r.invoice_date = dates[i]})]]

\* The frame of row i does not hold row i itself
RollingFrameCurrentRowBug(i) == {j \in 1..i : j >= i - 5}

\* ROWS BETWEEN 6 PRECEDING AND 1 PRECEDING, for the row at position i
RollingFrame(i) == {j \in 1..(i - 1) : j >= i - 6}

RevenueWithAvg(daily) ==
    [i \in 1..Len(daily) |->
        LET F == RollingFrame(i)
        IN  [revenue_date  |-> daily[i].revenue_date,
             daily_revenue |-> daily[i].daily_revenue,
             rolling_avg   |->
                 IF F = {} THEN Null
                 ELSE <<[sum |-> SetSum([j \in F |-> daily[j].daily_revenue], F),
                         n   |-> Cardinality(F)]>>,
             prev_day_revenue |->
                 IF i = 1 THEN Null ELSE <<daily[i - 1].daily_revenue>>]]

\* rolling_avg > 0 AND ((daily_revenue - rolling_avg) / rolling_avg * 100) < -drop
DropBelow(daily_revenue, avg, drop) ==
    /\ avg.sum > 0
    /\ (daily_revenue * avg.n - avg.sum) * 100 < -drop * avg.sum

SeverityInclusiveBug(daily_revenue, avg, critical, warning) ==
    IF avg.sum > 0
       /\ (daily_revenue * avg.n - avg.sum) * 100 <= -critical * avg.sum
        THEN "Critical"
    ELSE IF avg.sum > 0
       /\ (daily_revenue * avg.n - avg.sum) * 100 <= -warning * avg.sum
        THEN "Warning"
    ELSE "Normal"

Severity(daily_revenue, avg, critical, warning) ==
    IF DropBelow(daily_revenue, avg, critical) THEN "Critical"
    ELSE IF DropBelow(daily_revenue, avg, warning) THEN "Warning"
    ELSE "Normal"

RevenueChangePct(daily_revenue, avg) ==
    IF avg.sum > 0
        THEN RoundHalfAway((daily_revenue * avg.n - avg.sum) * 10000, avg.sum)
    ELSE 0

AlertMessage(revenue_change_pct) ==
    IF revenue_change_pct < -3000 THEN "Critical revenue drop detected"
    ELSE IF revenue_change_pct < -1500 THEN "Significant revenue decline"
    ELSE "Revenue anomaly detected"

Anomalies(with_avg, critical, warning) ==
    LET HasAvg(r) == ~IsNull(r.rolling_avg)
        kept == SelectSeq(with_avg, HasAvg)
    IN  [i \in 1..Len(kept) |->
            [revenue_date  |-> kept[i].revenue_date,
             daily_revenue |-> kept[i].daily_revenue,
             rolling_avg   |-> kept[i].rolling_avg[1],
             revenue_change_pct |->
                 RevenueChangePct(kept[i].daily_revenue, kept[i].rolling_avg[1]),
             severity      |->
                 Severity(kept[i].daily_revenue, kept[i].rolling_avg[1],
                          critical, warning)]]

RevenueAnomaliesQuery(tbl, params) ==
    LET anomalies == Anomalies(RevenueWithAvg(DailyRevenue(tbl, params[1])),
                               params[2], params[3])
        NotNormal(r) == r.severity # "Normal"
        kept == Reverse(SelectSeq(anomalies, NotNormal))
    IN  [i \in 1..Len(kept) |->
            [alert_date    |-> kept[i].revenue_date,
             daily_revenue |-> kept[i].daily_revenue,
             rolling_avg   |-> kept[i].rolling_avg,
             revenue_change_pct |-> kept[i].revenue_change_pct,
             severity      |-> kept[i].severity,
             alert_message |-> AlertMessage(kept[i].revenue_change_pct)]]

REVENUE_ANALYSIS_DAYS == 30
CRITICAL_DROP_THRESHOLD == 30
WARNING_DROP_THRESHOLD == 15

MaxRevenueInvoices == 7
\* Age of the first day of revenue, and a period shorter than the history
FirstRevenueAge == 8
ShortAnalysisDays == 4

\* Revenue arrives day after day: an invoice opens the next day (6500, 8000
\* or 10000 cents) or adds 500 cents to the latest day.
InsertRevenueInvoice ==
    /\ LET last == IF invoice = EmptyBag THEN Today - FirstRevenueAge - 1
                   ELSE MaxDate(DOMAIN invoice)
           rows == { InvoiceRow(1, Today - (last + 1), total, 1) :
                        total \in {6500, 8000, 10000} }
                   \cup (IF invoice = EmptyBag THEN {}
                         ELSE { InvoiceRow(1, Today - last, 500, 1) })
       IN  Insert(rows, MaxRevenueInvoices)
    /\ UNCHANGED <<track_sales, df, pageVars>>

\* run_query(get_revenue_anomalies_query(), (days, critical, warning))
RunRevenueAnomaliesQuery ==
    /\ df = NoResult
    /\ \E days \in {REVENUE_ANALYSIS_DAYS, ShortAnalysisDays} :
         LET params == <<days, CRITICAL_DROP_THRESHOLD, WARNING_DROP_THRESHOLD>>
         IN  df' = [query  |-> "revenue_anomalies", caller |-> "run_query",
                    params |-> params,
                    rows   |-> RevenueAnomaliesQuery(invoice, params)]
    /\ UNCHANGED <<dbVars, pageVars>>

(***************************************************************************)
(* What C4 and C5 speak of, stated on the invoice table itself: the days   *)
(* of revenue of the analysed period, the revenue of a day, and the prior  *)
(* days a day's rolling average is taken over (the up to 6 closest days    *)
(* of revenue before it).                                                  *)
(***************************************************************************)
RevenueDays(days) ==
    {r.invoice_date : r \in {x \in DOMAIN invoice : x.invoice_date >= Today - days}}
RevenueOf(D) == SumTotal(invoice, {r \in DOMAIN invoice : r.invoice_date = D})
AllPriorDays(days, D) == {e \in RevenueDays(days) : e < D}
PriorDays(days, D) ==
    {e \in AllPriorDays(days, D) :
        Cardinality({x \in RevenueDays(days) : e < x /\ x < D}) < 6}
PriorRevenue(days, D) ==
    SetSum([e \in PriorDays(days, D) |-> RevenueOf(e)], PriorDays(days, D))
ReturnedDays == {df.rows[i].alert_date : i \in 1..Len(df.rows)}
RowOfDay(D) == df.rows[CHOOSE i \in 1..Len(df.rows) : df.rows[i].alert_date = D]

(***************************************************************************)
(* C4.  With the drop thresholds 30 and 15, every day with a positive      *)
(* rolling average has the deviation (daily_revenue - rolling_avg) /       *)
(* rolling_avg * 100 and is Critical when it is below -30, else Warning    *)
(* when it is below -15, else Normal; the days returned are exactly those  *)
(* not Normal; with rolling_avg = 100, a revenue of 65 is returned as      *)
(* Critical, 80 as Warning, and 90 is not returned.                        *)
(***************************************************************************)
C4_RevenueSeverity ==
    (/\ df.query = "revenue_anomalies"
     /\ df.params[2] = 30 /\ df.params[3] = 15) =>
      \A D \in RevenueDays(df.params[1]) :
        LET n     == Cardinality(PriorDays(df.params[1], D))
            sum   == PriorRevenue(df.params[1], D)
            rev   == RevenueOf(D)
            \* deviation = (rev - sum/n) / (sum/n) * 100 = dev100 / sum
            dev100 == (rev * n - sum) * 100
            label == IF dev100 < -30 * sum THEN "Critical"
                     ELSE IF dev100 < -15 * sum THEN "Warning"
                     ELSE "Normal"
        IN  (n > 0 /\ sum > 0) =>
              /\ D \in ReturnedDays <=> label # "Normal"
              /\ D \in ReturnedDays =>
                   /\ RowOfDay(D).severity = label
                   /\ RowOfDay(D).daily_revenue = rev
                   /\ RowOfDay(D).rolling_avg = [sum |-> sum, n |-> n]
                   \* revenue_change_pct is the deviation to 2 decimals
                   /\ 2 * (RowOfDay(D).revenue_change_pct * sum - dev100 * 100)
                          <= sum
                   /\ 2 * (dev100 * 100 - RowOfDay(D).revenue_change_pct * sum)
                          <= sum
              /\ (sum = 10000 * n /\ rev = 6500) =>
                   (D \in ReturnedDays /\ RowOfDay(D).severity = "Critical"
                    /\ RowOfDay(D).revenue_change_pct = -3500)
              /\ (sum = 10000 * n /\ rev = 8000) =>
                   (D \in ReturnedDays /\ RowOfDay(D).severity = "Warning"
                    /\ RowOfDay(D).revenue_change_pct = -2000)
              /\ (sum = 10000 * n /\ rev = 9000) => D \notin ReturnedDays

\* After six days at 100.00 a day at 65.00 is returned as Critical, and a
\* day exactly 30% below its average is returned as Warning.
C4_Witness ==
    /\ df.query = "revenue_anomalies"
    /\ \E i \in 1..Len(df.rows) :
         /\ df.rows[i].rolling_avg = [sum |-> 60000, n |-> 6]
         /\ df.rows[i].daily_revenue = 6500
         /\ df.rows[i].severity = "Critical"

(***************************************************************************)
(* C5 as claimed.  A day appears in the revenue-anomaly output only if     *)
(* its rolling average was taken over the full window of 6 prior days: a   *)
(* day with fewer than 6 prior days of revenue in the analysed period is   *)
(* never returned.                                                         *)
(***************************************************************************)
C5_FullWindowOnly ==
    df.query = "revenue_anomalies" =>
      \A D \in ReturnedDays :
        Cardinality(AllPriorDays(df.params[1], D)) >= 6

(***************************************************************************)
(* C5 as amended.  A day appears in the output only if it has at least     *)
(* one prior day of revenue in the analysed period; its rolling average    *)
(* is the mean of the up to 6 closest prior days, all of them when there   *)
(* are fewer than 6; the first day of the period is never returned.        *)
(***************************************************************************)
C5_SomePriorDay ==
    df.query = "revenue_anomalies" =>
      \A D \in ReturnedDays :
        LET prior == Cardinality(AllPriorDays(df.params[1], D))
        IN  /\ prior >= 1
            /\ RowOfDay(D).rolling_avg.n = (IF prior < 6 THEN prior ELSE 6)
            /\ RowOfDay(D).rolling_avg.sum = PriorRevenue(df.params[1], D)

\* A day with a single prior day of revenue is returned.
C5_Witness ==
    /\ df.query = "revenue_anomalies"
    /\ \E D \in ReturnedDays :
         /\ Cardinality(AllPriorDays(df.params[1], D)) = 1
         /\ RowOfDay(D).rolling_avg.n = 1

(***************************************************************************)
(* get_fraud_detection_query, parameters (high-value-single-item amount,   *)
(* bulk items, high-value amount, fraud amount, suspicious items).         *)
(* suspicious_transactions has one row per invoice of the last 30 days     *)
(* that has at least one invoice_line (inner joins); the final SELECT      *)
(* keeps the rows whose alert_type is not Normal, ORDER BY severity rank,  *)
(* transaction_amount DESC, LIMIT 20.  The result is kept as a bag of      *)
(* rows: rows of equal rank and amount are returned in an order, and cut   *)
(* by the LIMIT at a place, that the engine chooses.                       *)
(***************************************************************************)
TransactionPatternBulkLastBug(total, items, params) ==
    IF total > params[1] /\ items = 1 THEN "High Value Single Item"
    ELSE IF total > params[3] THEN "High Value Transaction"
    ELSE IF items > params[2] THEN "Bulk Purchase"
    ELSE "Normal"

TransactionPattern(total, items, params) ==
    IF total > params[1] /\ items = 1 THEN "High Value Single Item"
    ELSE IF items > params[2] THEN "Bulk Purchase"
    ELSE IF total > params[3] THEN "High Value Transaction"
    ELSE "Normal"

AlertType(total, items, params) ==
    IF total > params[4] THEN "Fraud"
    ELSE IF items > params[5] THEN "Suspicious"
    ELSE "Normal"

FraudSeverity(alert_type) ==
    IF alert_type = "Fraud" THEN "High"
    ELSE IF alert_type = "Suspicious" THEN "Medium"
    ELSE "Low"

\* ORDER BY CASE severity WHEN 'High' THEN 1 WHEN 'Medium' THEN 2 ELSE 3 END
SeverityRank(severity) ==
    IF severity = "High" THEN 1 ELSE IF severity = "Medium" THEN 2 ELSE 3

\* r comes strictly before s in ORDER BY severity rank, transaction_amount DESC
FraudBefore(r, s) ==
    \/ SeverityRank(r.severity) < SeverityRank(s.severity)
    \/ /\ SeverityRank(r.severity) = SeverityRank(s.severity)
       /\ r.transaction_amount > s.transaction_amount

FRAUD_LIMIT == 20

\* One output row per examined invoice row i
RiskAssessmentRow(i, params) ==
    [customer_id        |-> i.customer_id,
     invoice_date       |-> i.invoice_date,
     transaction_amount |-> i.total,
     items_purchased    |-> i.items,
     transaction_pattern |-> TransactionPattern(i.total, i.items, params),
     alert_type         |-> AlertType(i.total, i.items, params),
     severity           |-> FraudSeverity(AlertType(i.total, i.items, params))]

\* The invoices suspicious_transactions examines
ExaminedInvoices(tbl) ==
    {i \in DOMAIN tbl : i.invoice_date >= Today - 30 /\ i.items >= 1}

\* The bag of rows of risk_assessment whose alert_type is not Normal
FlaggedRows(tbl, params) ==
    LET inv == {i \in ExaminedInvoices(tbl) :
                    AlertType(i.total, i.items, params) # "Normal"}
        out == {RiskAssessmentRow(i, params) : i \in inv}
    IN  [r \in out |->
            SetSum([i \in inv |-> IF RiskAssessmentRow(i, params) = r
                                  THEN tbl[i] ELSE 0], inv)]

BagSize(B) == SetSum(B, DOMAIN B)

\* The results LIMIT n can return from the bag B of ordered rows
LimitOrdered(B, n) ==
    LET Ahead(r) == SetSum([s \in DOMAIN B |->
                               IF FraudBefore(s, r) THEN B[s] ELSE 0], DOMAIN B)
        Tied(r)  == SetSum([s \in DOMAIN B |->
                               IF ~FraudBefore(s, r) /\ ~FraudBefore(r, s)
                               THEN B[s] ELSE 0], DOMAIN B)
        whole    == {r \in DOMAIN B : Ahead(r) + Tied(r) <= n}
        cut      == {r \in DOMAIN B : Ahead(r) < n /\ Ahead(r) + Tied(r) > n}
        room     == n - SetSum([r \in whole |-> B[r]], whole)
        shares   == {g \in [cut -> 0..n] :
                        /\ \A r \in cut : g[r] <= B[r]
                        /\ SetSum(g, cut) = room}
    IN  { [r \in whole \cup {x \in cut : g[x] > 0} |->
              IF r \in whole THEN B[r] ELSE g[r]] : g \in shares }

FraudDetectionQuery(tbl, params) ==
    LimitOrdered(FlaggedRows(tbl, params), FRAUD_LIMIT)

HIGH_VALUE_SINGLE_ITEM == 50
BULK_PURCHASE_THRESHOLD == 20
FRAUD_AMOUNT_THRESHOLD == 100
SUSPICIOUS_ITEMS_THRESHOLD == 15

\* The bindings of the five placeholders, in cents and items
FraudBindings ==
    { <<HIGH_VALUE_SINGLE_ITEM * 100, BULK_PURCHASE_THRESHOLD, hv * 100,
        FRAUD_AMOUNT_THRESHOLD * 100, SUSPICIOUS_ITEMS_THRESHOLD>> :
      hv \in {HIGH_VALUE_SINGLE_ITEM, FRAUD_AMOUNT_THRESHOLD} }

\* Invoice rows on both sides of each test, each absent, single or repeated
ManyInvoices == 20

FraudInvoices ==
    { InvoiceRow(1, 30, 10100, 1), InvoiceRow(1, 5, 10000, 1),
      InvoiceRow(1, 5, 5100, 21),  InvoiceRow(1, 5, 5000, 16),
      InvoiceRow(1, 5, 12000, 21), InvoiceRow(1, 5, 12000, 2),
      InvoiceRow(1, 5, 12000, 0),  InvoiceRow(1, 31, 12000, 1) }

FraudTables ==
    { [i \in {x \in FraudInvoices : c[x] > 0} |-> c[i]] :
      c \in [FraudInvoices -> {0, 1, ManyInvoices}] }

InitFraud ==
    /\ invoice \in FraudTables
    /\ track_sales = [t \in Tracks |-> 0]
    /\ df = NoResult
    /\ InitPage
    /\ engine_built = TRUE

\* run_query(get_fraud_detection_query(), params)
RunFraudDetectionQuery ==
    /\ df = NoResult
    /\ \E params \in FraudBindings :
         \E rows \in FraudDetectionQuery(invoice, params) :
            df' = [query  |-> "fraud_detection", caller |-> "run_query",
                   params |-> params, rows |-> rows]
    /\ UNCHANGED <<dbVars, pageVars>>

(***************************************************************************)
(* What C6 speaks of, stated on the invoice table: the examined invoices   *)
(* (last 30 days, at least one line), how many returned rows stand for an  *)
(* invoice row, and the invoices the claimed rule flags.                   *)
(***************************************************************************)
C6_Examined ==
    {i \in DOMAIN invoice : i.invoice_date >= Today - 30 /\ i.items >= 1}
C6_Returned(i) ==
    LET of_i == {r \in DOMAIN df.rows :
                    /\ r.customer_id = i.customer_id
                    /\ r.invoice_date = i.invoice_date
                    /\ r.transaction_amount = i.total
                    /\ r.items_purchased = i.items}
    IN  SetSum([r \in of_i |-> df.rows[r]], of_i)
C6_Flagged ==
    {i \in C6_Examined :
        i.total > df.params[4] \/ i.items > df.params[5]}
C6_FlaggedCount == SetSum([i \in C6_Flagged |-> invoice[i]], C6_Flagged)
C6_Classified ==
    \A r \in DOMAIN df.rows :
      LET t == r.transaction_amount
          n == r.items_purchased
      IN  /\ r.transaction_pattern =
                (CASE t > df.params[1] /\ n = 1 -> "High Value Single Item"
                   [] ~(t > df.params[1] /\ n = 1) /\ n > df.params[2]
                        -> "Bulk Purchase"
                   [] ~(t > df.params[1] /\ n = 1) /\ ~(n > df.params[2])
                      /\ t > df.params[3] -> "High Value Transaction"
                   [] OTHER -> "Normal")
          /\ r.alert_type =
                (CASE t > df.params[4] -> "Fraud"
                   [] ~(t > df.params[4]) /\ n > df.params[5] -> "Suspicious"
                   [] OTHER -> "Normal")
          /\ r.alert_type # "Normal"
          /\ \E i \in C6_Examined : C6_Returned(i) = df.rows[r]

(***************************************************************************)
(* C6 as claimed.  Every returned row has the first matching pattern in    *)
(* the order High Value Single Item, Bulk Purchase, High Value             *)
(* Transaction, Normal, and alert_type Fraud, else Suspicious, else        *)
(* Normal; and the rows returned are exactly the examined invoices whose   *)
(* alert_type is not Normal.                                               *)
(***************************************************************************)
C6_ExactlyTheFlagged ==
    df.query = "fraud_detection" =>
      /\ C6_Classified
      /\ \A i \in C6_Examined :
           C6_Returned(i) = (IF i \in C6_Flagged THEN invoice[i] ELSE 0)

(***************************************************************************)
(* C6 as amended.  The classification is as claimed; the rows returned     *)
(* are examined invoices whose alert_type is not Normal: all of them when  *)
(* there are at most 20, and otherwise 20 of them, none ranking after an   *)
(* omitted one in the order Fraud before Suspicious, larger amount first.  *)
(***************************************************************************)
C6_FirstTwentyFlagged ==
    df.query = "fraud_detection" =>
      /\ C6_Classified
      /\ \A i \in C6_Examined :
           C6_Returned(i) <= (IF i \in C6_Flagged THEN invoice[i] ELSE 0)
      /\ BagSize(df.rows) =
           (IF C6_FlaggedCount <= 20 THEN C6_FlaggedCount ELSE 20)
      /\ \A i, j \in C6_Flagged :
           (C6_Returned(i) < invoice[i] /\ C6_Returned(j) > 0) =>
              \* the omitted i does not come strictly before the returned j
              ~ \/ (i.total > df.params[4] /\ ~(j.total > df.params[4]))
                \/ /\ (i.total > df.params[4]) = (j.total > df.params[4])
                   /\ i.total > j.total

\* 21 invoices are flagged and 20 are returned; a Bulk Purchase that is
\* also above the high-value amount is among them.
C6_Witness ==
    /\ df.query = "fraud_detection"
    /\ C6_FlaggedCount = 21
    /\ BagSize(df.rows) = 20
    /\ \E r \in DOMAIN df.rows :
         /\ r.transaction_pattern = "Bulk Purchase"
         /\ r.transaction_amount > df.params[3]

(***************************************************************************)
(* get_low_performance_tracks_query and get_low_performance_albums_query,  *)
(* parameters (sales threshold, row limit).  COUNT(il.invoice_line_id) of  *)
(* a track is track_sales[t]; an album's is the sum over its tracks.       *)
(* Names and titles are distinct here, so ORDER BY total_sales ASC, name   *)
(* leaves no tie.                                                          *)
(***************************************************************************)
Albums == {1, 2}
AlbumOf(t) == IF t = 3 THEN 2 ELSE 1

\* A CASE whose Low Sales tier would include the page's threshold
TrackAlertLevelWideLowBug(total_sales) ==
    IF total_sales = 0 THEN "No Sales"
    ELSE IF total_sales <= 3 THEN "Low Sales"
    ELSE IF total_sales < 5 THEN "Below Average"
    ELSE "Normal"

TrackAlertLevel(total_sales) ==
    IF total_sales = 0 THEN "No Sales"
    ELSE IF total_sales < 3 THEN "Low Sales"
    ELSE IF total_sales < 5 THEN "Below Average"
    ELSE "Normal"

AlbumAlertLevelTrackTiersBug(total_sales) == TrackAlertLevel(total_sales)

AlbumAlertLevel(total_sales) ==
    IF total_sales = 0 THEN "No Sales"
    ELSE IF total_sales < 5 THEN "Low Sales"
    ELSE IF total_sales < 10 THEN "Below Average"
    ELSE "Normal"

\* ORDER BY total_sales ASC, name: the rows of R, a set of pairs
\* <<total_sales, name>>, in order
RECURSIVE OrderBySalesName(_)
OrderBySalesName(R) ==
    IF R = {} THEN <<>>
    ELSE LET first == CHOOSE x \in R : \A y \in R :
                          \/ x[1] < y[1]
                          \/ (x[1] = y[1] /\ x[2] <= y[2])
         IN  <<first>> \o OrderBySalesName(R \ {first})

\* LIMIT n
Limit(s, n) == SubSeq(s, 1, IF Len(s) < n THEN Len(s) ELSE n)

LowPerformanceTracksQuery(sales, params) ==
    LET having == {t \in Tracks : sales[t] <= params[1]}
        sorted == Limit(OrderBySalesName({<<sales[t], t>> : t \in having}),
                        params[2])
    IN  [i \in 1..Len(sorted) |->
            [track_name  |-> sorted[i][2],
             total_sales |-> sorted[i][1],
             alert_level |-> TrackAlertLevel(sorted[i][1])]]

AlbumSales(sales, a) ==
    SetSum([t \in {x \in Tracks : AlbumOf(x) = a} |-> sales[t]],
           {x \in Tracks : AlbumOf(x) = a})

LowPerformanceAlbumsQuery(sales, params) ==
    LET albums == {a \in Albums : \E t \in Tracks : AlbumOf(t) = a}
        having == {a \in albums : AlbumSales(sales, a) <= params[1]}
        sorted == Limit(OrderBySalesName({<<AlbumSales(sales, a), a>> :
                                            a \in having}), params[2])
    IN  [i \in 1..Len(sorted) |->
            [album_title |-> sorted[i][2],
             track_count |-> Cardinality({t \in Tracks :
                                            AlbumOf(t) = sorted[i][2]}),
             total_sales |-> sorted[i][1],
             alert_level |-> AlbumAlertLevel(sorted[i][1])]]

MIN_SALES_THRESHOLD == 3
ALBUM_SALES_THRESHOLD == 5
TRACK_LIMIT == 25
ALBUM_LIMIT == 20

MaxTrackSales == 5
\* A threshold above every tier, and a limit below the number of rows
WideSalesThreshold == 12
ShortLimit == 2

\* An invoice line for track t is recorded
SellTrack ==
    /\ df = NoResult
    /\ \E t \in Tracks :
         /\ track_sales[t] < MaxTrackSales
         /\ track_sales' = [track_sales EXCEPT ![t] = @ + 1]
    /\ UNCHANGED <<invoice, df, pageVars>>

\* alerts.py, Tracks section: run_query(get_low_performance_tracks_query(),
\* (MIN_SALES_THRESHOLD, TRACK_LIMIT)); or the template with other bindings
RunLowPerformanceTracksQuery ==
    /\ df = NoResult
    /\ \E params \in {<<MIN_SALES_THRESHOLD, TRACK_LIMIT>>,
                      <<WideSalesThreshold, TRACK_LIMIT>>,
                      <<WideSalesThreshold, ShortLimit>>} :
         df' = [query  |-> "low_performance_tracks",
                caller |-> IF params = <<MIN_SALES_THRESHOLD, TRACK_LIMIT>>
                           THEN "Alerts page" ELSE "run_query",
                params |-> params,
                rows   |-> LowPerformanceTracksQuery(track_sales, params)]
    /\ UNCHANGED <<dbVars, pageVars>>

\* alerts.py, Albums section: run_query(get_low_performance_albums_query(),
\* (ALBUM_SALES_THRESHOLD, ALBUM_LIMIT)); or the template with other bindings
RunLowPerformanceAlbumsQuery ==
    /\ df = NoResult
    /\ \E params \in {<<ALBUM_SALES_THRESHOLD, ALBUM_LIMIT>>,
                      <<WideSalesThreshold, ALBUM_LIMIT>>,
                      <<WideSalesThreshold, ShortLimit - 1>>} :
         df' = [query  |-> "low_performance_albums",
                caller |-> IF params = <<ALBUM_SALES_THRESHOLD, ALBUM_LIMIT>>
                           THEN "Alerts page" ELSE "run_query",
                params |-> params,
                rows   |-> LowPerformanceAlbumsQuery(track_sales, params)]
    /\ UNCHANGED <<dbVars, pageVars>>

(***************************************************************************)
(* C7.  A track of the low-performance-tracks result is No Sales at 0      *)
(* sales, Low Sales at 1 or 2, Below Average at 3 or 4, Normal otherwise;  *)
(* an album of the low-performance-albums result is No Sales at 0, Low     *)
(* Sales at 1 to 4, Below Average at 5 to 9, Normal otherwise.             *)
(***************************************************************************)
C7_AlertLevelTiers ==
    /\ df.query = "low_performance_tracks" =>
         \A i \in 1..Len(df.rows) :
           LET n == df.rows[i].total_sales
           IN  /\ n = track_sales[df.rows[i].track_name]
               /\ df.rows[i].alert_level =
                    (CASE n = 0 -> "No Sales"
                       [] n \in 1..2 -> "Low Sales"
                       [] n \in 3..4 -> "Below Average"
                       [] OTHER -> "Normal")
    /\ df.query = "low_performance_albums" =>
         \A i \in 1..Len(df.rows) :
           LET n == df.rows[i].total_sales
           IN  /\ n = SetSum([t \in Tracks |->
                               IF AlbumOf(t) = df.rows[i].album_title
                               THEN track_sales[t] ELSE 0], Tracks)
               /\ df.rows[i].alert_level =
                    (CASE n = 0 -> "No Sales"
                       [] n \in 1..4 -> "Low Sales"
                       [] n \in 5..9 -> "Below Average"
                       [] OTHER -> "Normal")

\* The albums result holds an album at 4 sales (Low Sales) and one at 5
\* (Below Average), where a track at those counts is Below Average and
\* Normal.
C7_Witness ==
    /\ df.query = "low_performance_albums"
    /\ \E i, j \in 1..Len(df.rows) :
         /\ df.rows[i].total_sales = 4 /\ df.rows[i].alert_level = "Low Sales"
         /\ df.rows[j].total_sales = 5
         /\ df.rows[j].alert_level = "Below Average"

(***************************************************************************)
(* _get_musical_profile(genres, tracks), applied by                        *)
(* create_musical_profile_chart to each row's nb_different_genres and      *)
(* nb_purchased_tracks.                                                    *)
(***************************************************************************)
ECLECTIC_GENRES == 8
ECLECTIC_TRACKS == 30
DIVERSIFIED_GENRES == 5
DIVERSIFIED_TRACKS == 15
SELECTIVE_GENRES == 3
SELECTIVE_TRACKS == 8
SPECIALIZED_GENRES == 2
SPECIALIZED_TRACKS == 5
EXPLORER_GENRES == 4
EXPLORER_TRACKS == 15
OCCASIONAL_TRACKS == 5

MusicalProfileExplorerFirstBug(genres, tracks) ==
    IF genres >= ECLECTIC_GENRES /\ tracks >= ECLECTIC_TRACKS THEN "Eclectic"
    ELSE IF genres >= DIVERSIFIED_GENRES /\ tracks >= DIVERSIFIED_TRACKS
        THEN "Diversified"
    ELSE IF genres >= SELECTIVE_GENRES /\ tracks >= SELECTIVE_TRACKS
        THEN "Selective"
    ELSE IF genres <= SPECIALIZED_GENRES /\ tracks >= SPECIALIZED_TRACKS
        THEN "Specialized"
    ELSE IF genres >= EXPLORER_GENRES /\ tracks < EXPLORER_TRACKS
        THEN "Explorer"
    ELSE IF tracks < OCCASIONAL_TRACKS THEN "Occasional"
    ELSE "Regular"

_get_musical_profile(genres, tracks) ==
    IF genres >= ECLECTIC_GENRES /\ tracks >= ECLECTIC_TRACKS THEN "Eclectic"
    ELSE IF genres >= DIVERSIFIED_GENRES /\ tracks >= DIVERSIFIED_TRACKS
        THEN "Diversified"
    ELSE IF genres >= SELECTIVE_GENRES /\ tracks >= SELECTIVE_TRACKS
        THEN "Selective"
    ELSE IF genres <= SPECIALIZED_GENRES /\ tracks >= SPECIALIZED_TRACKS
        THEN "Specialized"
    ELSE IF tracks < OCCASIONAL_TRACKS THEN "Occasional"
    ELSE IF genres >= EXPLORER_GENRES /\ tracks < EXPLORER_TRACKS
        THEN "Explorer"
    ELSE "Regular"

MaxGenres == 9
MaxTracks == 31

\* What a chart-building function hands back: a chart description with its
\* 'no data' annotation ("" when it has none) and the data it plots, or the
\* exception it raised
Chart(annotation, data) ==
    [raised |-> FALSE, annotation |-> annotation, data |-> data]
Raises(exception) == [raised |-> TRUE, annotation |-> "", data |-> exception]

\* value_counts() of the column `col` of the rows R
ValueCounts(R, col) ==
    [v \in {r[col] : r \in R} |-> Cardinality({r \in R : r[col] = v})]

\* The rows a call of create_musical_profile_chart is given: none, or one
\* customer row
RfmRows ==
    {<<>>} \cup {<<[nb_different_genres |-> genres,
                    nb_purchased_tracks |-> tracks]>> :
                   genres \in 0..MaxGenres, tracks \in 0..MaxTracks}

\* create_musical_profile_chart(rfm_df): the outcomes [table, chart] of the
\* call, table being rfm_df after it.  Line 85 assigns the new column
\* musical_profile to the caller's table.  On a table without rows
\* rfm_df.apply(..., axis=1) gives back an empty table, not a column: the
\* assignment keeps the rows as they are or raises ValueError, as the
\* installed pandas decides.
MusicalProfileOutcomes(rfm_df) ==
    IF rfm_df = <<>>
    THEN {[table |-> <<>>, chart |-> Raises("ValueError")],
          [table |-> <<>>, chart |-> Chart("", <<>>)]}
    ELSE LET with_profile ==
                 [i \in 1..Len(rfm_df) |->
                     [nb_different_genres |-> rfm_df[i].nb_different_genres,
                      nb_purchased_tracks |-> rfm_df[i].nb_purchased_tracks,
                      musical_profile |->
                          _get_musical_profile(rfm_df[i].nb_different_genres,
                                               rfm_df[i].nb_purchased_tracks)]]
         IN  {[table |-> with_profile,
               chart |-> Chart("", ValueCounts(
                             {<<i, with_profile[i].musical_profile>> :
                                 i \in 1..Len(with_profile)}, 2))]}

\* The columns the chart function reads from the table it is given, by the
\* branch it takes on a table with these columns and this many rows
ColumnsRead(function, columns, rows) ==
    CASE function = "create_musical_profile_chart" ->
           IF rows = 0 THEN {}
           ELSE {"nb_different_genres", "nb_purchased_tracks"}
      [] function = "create_anomaly_chart" ->
           IF rows = 0 THEN {}
           ELSE {"alert_date", "daily_revenue", "severity"}
                  \cup ({"rolling_avg"} \cap columns)
      [] function = "create_alert_heatmap" ->
           IF rows = 0 THEN {}
           ELSE IF "invoice_date" \in columns THEN {"invoice_date"}
           ELSE {"alert_type", "severity"}
      [] function = "create_duration_distribution" ->
           IF rows = 0 \/ "total_duration_minutes" \notin columns
              \/ "track_count" \notin columns
           THEN {}
           ELSE {"total_duration_minutes", "track_count", "album_revenue"}
      [] function = "create_geographic_pie_chart" -> {"total_revenue"}
      [] function = "create_churn_histogram" ->
           {"days_since_last", "churn_status"}

\* The record of a call: the table given (with the template's columns when
\* it has no row), the columns read and the chart handed back
Figure(function, given, template, chart) ==
    LET columns == IF given = <<>> THEN template ELSE DOMAIN given[1]
    IN  [function |-> function, given |-> given, columns |-> columns,
         reads |-> ColumnsRead(function, columns, Len(given)),
         chart |-> chart]

create_musical_profile_chart ==
    /\ df = NoResult
    /\ \E rfm_df \in RfmRows :
         \E outcome \in MusicalProfileOutcomes(rfm_df) :
           /\ df' = [query  |-> "musical_profile",
                     caller |-> "create_musical_profile_chart",
                     params |-> <<>>,
                     rows   |-> outcome.table]
           /\ fig' = Figure("create_musical_profile_chart", rfm_df,
                            {"customer_id", "customer_name", "recency_days",
                             "frequency", "monetary", "nb_different_genres",
                             "nb_purchased_tracks", "rfm_cluster"},
                            outcome.chart)
    /\ UNCHANGED <<dbVars, page, pc, screen, engine_built, last_call, session,
                   cache, sent, executed>>

(***************************************************************************)
(* C8.  For every pair (genres, tracks) of non-negative integers the       *)
(* profile is exactly one label, the first whose condition holds in the    *)
(* order Eclectic (genres >= 8, tracks >= 30), Diversified (>= 5, >= 15),  *)
(* Selective (>= 3, >= 8), Specialized (genres <= 2, tracks >= 5),         *)
(* Occasional (tracks < 5), Explorer (genres >= 4, tracks < 15), and       *)
(* Regular when none holds.                                                *)
(***************************************************************************)
C8_MusicalProfileOrder ==
    df.query = "musical_profile" =>
      \A i \in 1..Len(df.rows) :
        LET row == df.rows[i]
            g == row.nb_different_genres
            t == row.nb_purchased_tracks
            holds == <<g >= 8 /\ t >= 30, g >= 5 /\ t >= 15, g >= 3 /\ t >= 8,
                       g <= 2 /\ t >= 5, t < 5, g >= 4 /\ t < 15, TRUE>>
            names == <<"Eclectic", "Diversified", "Selective", "Specialized",
                       "Occasional", "Explorer", "Regular">>
            first == CHOOSE k \in 1..7 :
                        holds[k] /\ \A j \in 1..(k - 1) : ~holds[j]
        IN  row.musical_profile = names[first]

\* A customer with 4 genres and 4 tracks meets the conditions of both
\* Occasional and Explorer and is Occasional; one with 4 and 5 is Explorer.
C8_Witness ==
    /\ df.query = "musical_profile"
    /\ \E i \in 1..Len(df.rows) :
         /\ df.rows[i].nb_different_genres = 4
         /\ df.rows[i].nb_purchased_tracks = 4
         /\ df.rows[i].musical_profile = "Occasional"

(***************************************************************************)
(* database.py: get_engine and run_query.  create_engine either returns an *)
(* engine or raises (the driver cannot be imported, the URL cannot be      *)
(* parsed); pd.read_sql either returns the rows or raises.  An execution   *)
(* is [ok, rows]: whether the statement executes and the rows it gives.    *)
(***************************************************************************)
Executions(results) ==
    {[ok |-> FALSE, rows |-> <<>>]} \cup {[ok |-> TRUE, rows |-> r] : r \in results}

\* get_engine(): "engine", or "raised" when create_engine raises
get_engine(built) == IF built THEN "engine" ELSE "raised"

\* A try block that would call pd.read_sql a second time when the first
\* call raises
TryReadSqlAgainBug(execution) ==
    IF execution.ok THEN <<TRUE>> ELSE <<FALSE, FALSE>>
\* run_query lines 58-62: the calls of pd.read_sql the try block makes, each
\* with whether it returned; line 59 is the only call, outside any loop,
\* and the except branch makes none
TryReadSql(execution) == <<execution.ok>>

\* The entries a run_query call of section sec adds to executed
Invocations(sec, statement, call) ==
    [i \in 1..Len(call.invocations) |->
        [section |-> sec, statement |-> statement, ok |-> call.invocations[i]]]

\* The columns of the table pd.read_sql builds from a statement's result,
\* whatever the number of its rows; pd.DataFrame() has none
SelectList == {"select list"}

\* run_query whose except branch would hand back a table with the
\* statement's columns
RunQueryKeepsColumnsBug(built, execution) ==
    IF get_engine(built) = "raised"
    THEN [made |-> TRUE, engine_built |-> built, execution_ok |-> execution.ok,
          raised |-> TRUE, errors |-> <<>>, columns |-> {}, rows |-> <<>>,
          invocations |-> <<>>]
    ELSE IF ~execution.ok
    THEN [made |-> TRUE, engine_built |-> built, execution_ok |-> FALSE,
          raised |-> FALSE, errors |-> <<"Database error">>,
          columns |-> SelectList, rows |-> <<>>,
          invocations |-> TryReadSql(execution)]
    ELSE [made |-> TRUE, engine_built |-> built, execution_ok |-> TRUE,
          raised |-> FALSE, errors |-> <<>>,
          columns |-> SelectList, rows |-> execution.rows,
          invocations |-> TryReadSql(execution)]
\* run_query(sql, params): line 57 calls get_engine() before the try block,
\* lines 58-62 guard pd.read_sql only; the except branch returns
\* pd.DataFrame(), a table without rows and without columns
run_query(built, execution) ==
    IF get_engine(built) = "raised"
    THEN [made |-> TRUE, engine_built |-> built, execution_ok |-> execution.ok,
          raised |-> TRUE, errors |-> <<>>, columns |-> {}, rows |-> <<>>,
          invocations |-> <<>>]
    ELSE IF ~execution.ok
    THEN [made |-> TRUE, engine_built |-> built, execution_ok |-> FALSE,
          raised |-> FALSE, errors |-> <<"Database error">>,
          columns |-> {}, rows |-> <<>>,
          invocations |-> TryReadSql(execution)]
    ELSE [made |-> TRUE, engine_built |-> built, execution_ok |-> TRUE,
          raised |-> FALSE, errors |-> <<>>,
          columns |-> SelectList, rows |-> execution.rows,
          invocations |-> TryReadSql(execution)]

\* The results of a statement whose rows the page only tests for emptiness
SomeRows == {<<>>, <<"row">>}

\* GEOGRAPHIC_ANALYSIS: total_revenue per country in cents, ORDER BY
\* total_revenue DESC
GeographicRows == {<<>>, <<500>>, <<900, 500>>, <<500, 500>>, <<900, 700, 500>>}

\* The elements es rendered in section sec
Elements(sec, es) == [i \in 1..Len(es) |-> [section |-> sec, element |-> es[i]]]

\* The script run ends: the user leaves the page or triggers a rerun
EndScriptRun ==
    /\ pc \in {"done", "aborted", "stopped"}
    /\ page' = "none"
    /\ pc' = "idle"
    /\ screen' = <<>>
    /\ last_call' = NoCall
    /\ df' = NoResult
    /\ executed' = <<>>
    /\ UNCHANGED <<dbVars, engine_built, session, fig, cache, sent>>

(***************************************************************************)
(* alerts.py: header, Tracks section, Albums section, footer.  Each        *)
(* section is one try/except around its query, shaping and rendering.      *)
(***************************************************************************)
AlertsHeader ==
    /\ pc = "idle"
    /\ page' = "alerts"
    /\ pc' = "tracks"
    /\ screen' = Elements("header", <<"header">>)
    /\ UNCHANGED <<queryVars, engine_built, last_call, session, toolVars>>

AlertsTracksSection ==
    /\ page = "alerts" /\ pc = "tracks"
    /\ \E execution \in Executions(SomeRows) :
         LET call == run_query(engine_built, execution)
         IN  /\ last_call' = call
             /\ executed' = executed \o Invocations("tracks", "get_low_performance_tracks_query", call)
             /\ screen' = screen \o Elements("tracks",
                  <<"heading">> \o
                  (IF call.raised THEN <<"Error loading track data">>
                   ELSE call.errors \o
                        (IF call.rows # <<>>
                         THEN <<"metrics", "chart", "table">>
                         ELSE <<"info">>)))
    /\ pc' = "albums"
    /\ UNCHANGED <<queryVars, page, engine_built, session, fig, cache, sent>>

AlertsAlbumsSection ==
    /\ page = "alerts" /\ pc = "albums"
    /\ \E execution \in Executions(SomeRows) :
         LET call == run_query(engine_built, execution)
         IN  /\ last_call' = call
             /\ executed' = executed \o Invocations("albums", "get_low_performance_albums_query", call)
             /\ screen' = screen \o Elements("albums",
                  <<"heading">> \o
                  (IF call.raised THEN <<"Error loading album data">>
                   ELSE call.errors \o
                        (IF call.rows # <<>>
                         THEN <<"metrics", "table">>
                         ELSE <<"info">>)))
    /\ pc' = "footer"
    /\ UNCHANGED <<queryVars, page, engine_built, session, fig, cache, sent>>

\* render_footer(), the last statement of alerts.py and of finance main()
RenderFooter ==
    /\ pc = "footer"
    /\ screen' = screen \o Elements("footer", <<"footer">>)
    /\ pc' = "done"
    /\ UNCHANGED <<queryVars, page, engine_built, last_call, session, toolVars>>

(***************************************************************************)
(* finance.py main(): setup_page, create_header, setup_sidebar, the six    *)
(* display_* sections, render_footer.  No statement of main() or of the    *)
(* display_* functions is inside a try block: an exception raised in a     *)
(* section ends the script run, and Streamlit shows it in place.           *)
(***************************************************************************)
\* The section sec rendered the elements es and then raised
Uncaught(sec, es) ==
    /\ screen' = screen \o Elements(sec, es \o <<"uncaught exception">>)
    /\ pc' = "aborted"

\* The section sec rendered the elements es and returned
Returned(sec, es, next) ==
    /\ screen' = screen \o Elements(sec, es)
    /\ pc' = next

FinanceHeader ==
    /\ pc = "idle"
    /\ page' = "finance"
    /\ pc' = "sidebar"
    /\ screen' = Elements("header", <<"header">>)
    /\ UNCHANGED <<queryVars, engine_built, last_call, session, toolVars>>

DEFAULT_SHORT_PERIOD == 30

\* The first day of the invoices, min_d of the date bounds, as days before
\* max_d
WholePeriodDays == 399

\* The (date_from, date_to) the sidebar's controls give: the date bounds,
\* or the last DEFAULT_SHORT_PERIOD days when the run was started by the
\* 30d button of an earlier run that did not complete its sidebar
FinancePeriods ==
    {<<<<Today - d>>, <<Today>>>> : d \in {WholePeriodDays, DEFAULT_SHORT_PERIOD}}

\* A sidebar whose line 89 would never find the flag
SidebarNeverInitializedBug(state) == FALSE
\* setup_sidebar line 89: st.session_state.get("finance_sidebar_initialized")
SidebarInitialized(state) == state.finance_sidebar_initialized

\* main()'s (date_from, date_to), the value setup_sidebar returned
PagePeriod(date_from, date_to) ==
    [query |-> "none", caller |-> "setup_sidebar",
     params |-> <<date_from, date_to>>, rows |-> <<>>]

\* setup_sidebar(): lines 89-93 return the stored period; lines 95-143
\* create the controls, query the date bounds and store the period
setup_sidebar ==
    /\ page = "finance" /\ pc = "sidebar"
    /\ IF SidebarInitialized(session)
       THEN /\ Returned("sidebar", <<>>, "kpis")
            /\ df' = PagePeriod(session.finance_date_from,
                                session.finance_date_to)
            /\ UNCHANGED <<last_call, session, executed>>
       ELSE \E execution \in Executions(SomeRows), period \in FinancePeriods :
              LET call == run_query(engine_built, execution)
              IN  /\ last_call' = call
                  /\ executed' = executed \o Invocations("sidebar",
                                     "get_date_bounds_query", call)
                  /\ IF call.raised
                     THEN Uncaught("sidebar", <<"controls">>)
                          /\ UNCHANGED <<df, session>>
                     ELSE IF call.rows = <<>>
                     THEN /\ screen' = screen \o Elements("sidebar",
                               <<"controls">> \o call.errors
                                   \o <<"No data available">>)
                          /\ pc' = "stopped"
                          /\ UNCHANGED <<df, session>>
                     ELSE /\ Returned("sidebar",
                                <<"controls", "date_input">>, "kpis")
                          /\ df' = PagePeriod(period[1], period[2])
                          /\ session' =
                               [session EXCEPT
                                  !.finance_sidebar_initialized = TRUE,
                                  !.finance_date_from = period[1],
                                  !.finance_date_to = period[2]]
    /\ UNCHANGED <<dbVars, page, engine_built, fig, cache, sent>>

display_financial_kpis ==
    /\ page = "finance" /\ pc = "kpis"
    /\ \E execution \in Executions(SomeRows) :
         LET call == run_query(engine_built, execution)
         IN  /\ last_call' = call
             /\ executed' = executed \o Invocations("kpis", "FINANCIAL_KPIS", call)
             /\ IF call.raised THEN Uncaught("kpis", <<>>)
                ELSE Returned("kpis",
                        call.errors \o (IF call.rows # <<>>
                                        THEN <<"metrics">> ELSE <<>>),
                        "evolution")
    /\ UNCHANGED <<queryVars, page, engine_built, session, fig, cache, sent>>

display_financial_evolution ==
    /\ page = "finance" /\ pc = "evolution"
    /\ \E execution \in Executions(SomeRows) :
         LET call == run_query(engine_built, execution)
         IN  /\ last_call' = call
             /\ executed' = executed \o Invocations("evolution", "trends_sql", call)
             /\ IF call.raised THEN Uncaught("evolution", <<"heading", "radio">>)
                ELSE Returned("evolution",
                        <<"heading", "radio">> \o call.errors
                            \o (IF call.rows # <<>>
                                THEN <<"chart", "statistics">> ELSE <<>>),
                        "geographic")
    /\ UNCHANGED <<queryVars, page, engine_built, session, fig, cache, sent>>

\* create_geographic_pie_chart(geographic_df), revenues the total_revenue
\* column of a table with at least one row: "figure", or "ValueError" when
\* revenues.max() = revenues.min(), where every normalized revenue is the
\* float 0.0 / 0.0 = NaN, equal to neither 0 nor 1, and int(NaN) raises
create_geographic_pie_chart(revenues) ==
    LET values == {revenues[i] : i \in 1..Len(revenues)}
    IN  IF revenues = <<>> THEN "ValueError"  \* min() of a zero-size array
        ELSE IF SetMax(values) = -SetMax({-v : v \in values})
        THEN "ValueError" ELSE "figure"

display_geographic_analysis ==
    /\ page = "finance" /\ pc = "geographic"
    /\ \E execution \in Executions(GeographicRows) :
         LET call == run_query(engine_built, execution)
         IN  /\ last_call' = call
             /\ executed' = executed \o Invocations("geographic", "GEOGRAPHIC_ANALYSIS", call)
             /\ IF call.raised THEN Uncaught("geographic", <<"heading">>)
                ELSE IF call.rows = <<>>
                THEN Returned("geographic", <<"heading">> \o call.errors,
                              "invoice")
                ELSE IF create_geographic_pie_chart(call.rows) = "ValueError"
                THEN Uncaught("geographic", <<"heading">>)
                ELSE Returned("geographic",
                        <<"heading", "pie chart", "bar chart", "countries">>,
                        "invoice")
    /\ UNCHANGED <<queryVars, page, engine_built, session, fig, cache, sent>>

display_invoice_analysis ==
    /\ page = "finance" /\ pc = "invoice"
    /\ \E execution \in Executions(SomeRows) :
         LET call == run_query(engine_built, execution)
         IN  /\ last_call' = call
             /\ executed' = executed \o Invocations("invoice", "INVOICE_ANALYSIS", call)
             /\ IF call.raised THEN Uncaught("invoice", <<"heading">>)
                ELSE Returned("invoice",
                        <<"heading">> \o call.errors
                            \o (IF call.rows # <<>>
                                THEN <<"chart", "chart", "summary">> ELSE <<>>),
                        "temporal")
    /\ UNCHANGED <<queryVars, page, engine_built, session, fig, cache, sent>>

display_temporal_analysis ==
    /\ page = "finance" /\ pc = "temporal"
    /\ \E execution \in Executions(SomeRows) :
         LET call == run_query(engine_built, execution)
         IN  /\ last_call' = call
             /\ executed' = executed \o Invocations("temporal", "WEEKLY_TRENDS", call)
             /\ IF call.raised THEN Uncaught("temporal", <<>>)
                ELSE Returned("temporal",
                        call.errors \o (IF call.rows # <<>>
                                        THEN <<"heading", "chart", "chart">>
                                        ELSE <<>>),
                        "basket")
    /\ UNCHANGED <<queryVars, page, engine_built, session, fig, cache, sent>>

\* display_basket_analysis: the yearly query decides whether the section is
\* shown; the detailed query's result goes to create_basket_evolution_chart
\* and display_basket_kpis unchecked, and a table without rows or columns
\* raises there (KeyError 'period_label', or IndexError at iloc[-1])
\* The radio "Basket View", Month by default
BasketPeriodViews == {"Month", "Quarter", "Year"}

\* get_basket_query(basket_period_view)
get_basket_query(basket_period_view) ==
    IF basket_period_view = "Month" THEN "MONTHLY_BASKET_ANALYSIS"
    ELSE IF basket_period_view = "Quarter" THEN "QUARTERLY_BASKET_ANALYSIS"
    ELSE "YEARLY_BASKET_ANALYSIS"

display_basket_analysis ==
    /\ page = "finance" /\ pc = "basket"
    /\ \E yearly \in Executions(SomeRows), detailed \in Executions(SomeRows),
          basket_period_view \in BasketPeriodViews :
         LET call == run_query(engine_built, yearly)
             call_detailed == run_query(engine_built, detailed)
             first == Invocations("basket", "YEARLY_BASKET_ANALYSIS", call)
         IN  IF call.raised
             THEN /\ last_call' = call
                  /\ executed' = executed \o first
                  /\ Uncaught("basket", <<>>)
             ELSE IF call.rows = <<>>
             THEN /\ last_call' = call
                  /\ executed' = executed \o first
                  /\ Returned("basket", call.errors, "footer")
             ELSE /\ last_call' = call_detailed
                  /\ executed' = executed \o first \o
                       Invocations("basket",
                                   get_basket_query(basket_period_view),
                                   call_detailed)
                  /\ IF call_detailed.rows = <<>>
                     THEN Uncaught("basket", <<"heading", "radio">>
                                                \o call_detailed.errors)
                     ELSE Returned("basket",
                            <<"heading", "radio", "chart", "metrics">>,
                            "footer")
    /\ UNCHANGED <<queryVars, page, engine_built, session, fig, cache, sent>>

(***************************************************************************)
(* C9.  run_query never raises to its caller: when building the engine or  *)
(* executing the statement fails it emits one 'Database error' message and *)
(* returns an empty table; on success it returns the rows and emits no     *)
(* error message.                                                          *)
(***************************************************************************)
C9_RunQueryNeverRaises ==
    last_call.made =>
      /\ ~last_call.raised
      /\ (~last_call.engine_built \/ ~last_call.execution_ok) =>
           (last_call.errors = <<"Database error">> /\ last_call.rows = <<>>)
      /\ (last_call.engine_built /\ last_call.execution_ok) =>
           last_call.errors = <<>>

(***************************************************************************)
(* C10.  On every page a failure raised while loading, shaping or charting *)
(* one section is confined to that section: the section shows an error     *)
(* message, and every later section of the page and the page footer are    *)
(* rendered in the same run.                                               *)
(***************************************************************************)
FailureElements ==
    {"Database error", "Error loading track data", "Error loading album data",
     "uncaught exception"}

C10_FailureConfined ==
    pc \in {"done", "aborted", "stopped"} =>
      \A i \in 1..Len(screen) :
        screen[i].element \in FailureElements =>
          /\ pc = "done"
          /\ \E j \in (i + 1)..Len(screen) : screen[j].element = "footer"

(***************************************************************************)
(* music.py: header with the date-bounds query (outside any try), the      *)
(* Tracks & Albums view (the default of the view selector), footer.        *)
(* customers.py: the same header, the Clustering view (the default),       *)
(* footer.  In these pages df is the page's table variable (track_df,      *)
(* rfm_df) as the view is about to render it.                              *)
(***************************************************************************)
\* The header of music.py, customers.py: markdown header, then
\* min_max = run_query(get_date_bounds_query()), then the view selector
PageHeader(name, view) ==
    /\ page' = name
    /\ \E execution \in Executions(SomeRows) :
         LET call == run_query(engine_built, execution)
         IN  /\ last_call' = call
             /\ executed' = Invocations("header", "get_date_bounds_query", call)
             /\ IF call.raised
                THEN /\ screen' = Elements("header",
                                     <<"header", "uncaught exception">>)
                     /\ pc' = "aborted"
                ELSE /\ screen' = Elements("header", <<"header">> \o call.errors
                                                        \o <<"selector">>)
                     /\ pc' = view
    /\ UNCHANGED <<queryVars, engine_built, session, fig, cache, sent>>

MusicHeader ==
    /\ pc = "idle"
    /\ PageHeader("music", "tracks & albums")

\* get_track_performance_query results: the genre of each returned track
TrackGenres == {<<>>, <<"Rock">>, <<"Rock", "Jazz">>}

\* The multiselect "Filter by genre"
GenreSelections == {{}, {"Rock"}, {"Jazz"}, {"Metal"}}

\* track_df[track_df["genre"].isin(show_genre)]
RECURSIVE IsIn(_, _)
IsIn(rows, show_genre) ==
    IF rows = <<>> THEN <<>>
    ELSE (IF Head(rows) \in show_genre THEN <<Head(rows)>> ELSE <<>>)
             \o IsIn(Tail(rows), show_genre)

\* music.py lines 140-226
MusicTracksAlbumsView ==
    /\ page = "music" /\ pc = "tracks & albums"
    /\ \E execution \in Executions(TrackGenres), show_genre \in GenreSelections,
          albums \in Executions(SomeRows) :
         LET call == run_query(engine_built, execution)
             album_call == run_query(engine_built, albums)
             track_df == IF show_genre # {} THEN IsIn(call.rows, show_genre)
                         ELSE call.rows
             first == Invocations("tracks & albums",
                                  "get_track_performance_query", call)
         IN  IF call.raised
             THEN /\ last_call' = call
                  /\ executed' = executed \o first
                  /\ df' = NoResult
                  /\ screen' = screen \o Elements("tracks & albums",
                        <<"heading", "Error loading track data">>)
             ELSE IF call.rows = <<>>
             THEN /\ last_call' = call
                  /\ executed' = executed \o first
                  /\ df' = [query |-> "track_performance",
                            caller |-> "Tracks & Albums view",
                            params |-> <<show_genre>>, rows |-> <<>>]
                  /\ screen' = screen \o Elements("tracks & albums",
                        <<"heading">> \o call.errors \o <<"warning">>)
             ELSE /\ last_call' = album_call
                  /\ executed' = executed \o first \o
                       Invocations("tracks & albums",
                                   "get_album_analytics_query", album_call)
                  /\ df' = [query |-> "track_performance",
                            caller |-> "Tracks & Albums view",
                            params |-> <<show_genre>>, rows |-> track_df]
                  /\ screen' = screen \o Elements("tracks & albums",
                        <<"heading", "metrics", "table", "chart">>
                            \o album_call.errors
                            \o (IF album_call.rows # <<>>
                                THEN <<"heading", "table", "chart">>
                                ELSE <<>>))
    /\ pc' = "footer"
    /\ UNCHANGED <<dbVars, page, engine_built, session, fig, cache, sent>>

CustomersHeader ==
    /\ pc = "idle"
    /\ PageHeader("customers", "clustering")

\* customers.py lines 137-186, the page's side of the Clustering view
CustomersClusteringView ==
    /\ page = "customers" /\ pc = "clustering"
    /\ \E execution \in Executions(SomeRows) :
         LET call == run_query(engine_built, execution)
         IN  /\ last_call' = call
             /\ executed' = executed \o Invocations("clustering", "get_rfm_clustering_query", call)
             /\ df' = IF call.raised THEN NoResult
                      ELSE [query |-> "rfm_clustering",
                            caller |-> "Clustering view, page",
                            params |-> <<>>, rows |-> call.rows]
             /\ screen' = screen \o Elements("clustering",
                  <<"heading">> \o
                  (IF call.raised THEN <<"Error during clustering">>
                   ELSE call.errors \o
                        (IF call.rows # <<>>
                         THEN <<"chart", "chart", "table", "chart", "chart">>
                         ELSE <<"warning">>)))
    /\ pc' = "footer"
    /\ UNCHANGED <<dbVars, page, engine_built, session, fig, cache, sent>>

(***************************************************************************)
(* C11.  Whenever the table a display section is about to render has zero  *)
(* rows, because the query returned none or because a page-side filter     *)
(* removed them all, the section shows a 'no data' message, renders no     *)
(* metrics, tables or charts from the empty table, and does not render     *)
(* nothing.                                                                *)
(***************************************************************************)
NoDataElements == {"info", "warning", "No data available"}
RenderedElements == {"metrics", "table", "chart", "statistics"}

ShowsNoData(sec) ==
    /\ \E i \in 1..Len(screen) :
         screen[i].section = sec /\ screen[i].element \in NoDataElements
    /\ \A i \in 1..Len(screen) :
         screen[i].section = sec => screen[i].element \notin RenderedElements

C11_ZeroRowsShowNoData ==
    /\ (/\ page = "finance" /\ pc = "geographic"
        /\ ~last_call.raised /\ last_call.rows = <<>>)
         => ShowsNoData("evolution")
    /\ (/\ page = "music" /\ pc = "footer"
        /\ df.caller = "Tracks & Albums view" /\ df.rows = <<>>)
         => ShowsNoData("tracks & albums")
    /\ (/\ page = "customers" /\ pc = "footer"
        /\ df.caller = "Clustering view, page" /\ df.rows = <<>>)
         => ShowsNoData("clustering")

(***************************************************************************)
(* Chart-building functions of the visualization modules, called on a      *)
(* table (a sequence of rows).  fig holds the function, the table it was   *)
(* given and what it handed back; df holds the caller's table after the    *)
(* call.                                                                   *)
(***************************************************************************)
\* alerts/visualization.py create_anomaly_chart(revenue_alerts_df)
create_anomaly_chart(t) ==
    IF t = <<>> THEN Chart("No revenue anomalies detected", <<>>)
    ELSE Chart("",
           [daily    |-> [i \in 1..Len(t) |-> <<t[i].alert_date,
                                                t[i].daily_revenue>>],
            average  |-> IF "rolling_avg" \in DOMAIN t[1]
                         THEN [i \in 1..Len(t) |-> t[i].rolling_avg] ELSE <<>>,
            critical |-> SelectSeq([i \in 1..Len(t) |->
                                       <<t[i].alert_date, t[i].severity>>],
                                   LAMBDA x : x[2] = "Critical")])

AnomalyRows ==
    {[alert_date |-> d, daily_revenue |-> 6500, rolling_avg |-> 10000,
      severity |-> sv] : d \in {Today - 1, Today - 2},
                         sv \in {"Critical", "Warning"}}
        \cup {[alert_date |-> Today, daily_revenue |-> 8000,
               severity |-> "Warning"]}

\* Tables of up to two rows with the same columns
TablesOf(R) ==
    {<<>>} \cup {<<r>> : r \in R}
        \cup {<<pair[1], pair[2]>> :
                 pair \in {q \in R \X R : DOMAIN q[1] = DOMAIN q[2]}}

\* alerts/visualization.py create_alert_heatmap(security_alerts_df): [table,
\* chart], table being security_alerts_df after the call.  Lines 194-199
\* assign the columns hour and day_of_week to the caller's table.
create_alert_heatmap(t) ==
    IF t = <<>>
    THEN [table |-> t, chart |-> Chart("No security alerts detected", <<>>)]
    ELSE IF "invoice_date" \in DOMAIN t[1]
    THEN LET with_hour ==
                 [i \in 1..Len(t) |->
                     [invoice_date |-> t[i].invoice_date,
                      alert_type   |-> t[i].alert_type,
                      severity     |-> t[i].severity,
                      hour         |-> 0,
                      day_of_week  |-> t[i].invoice_date % 7]]
         IN  [table |-> with_hour,
              chart |-> Chart("", ValueCounts(
                            {<<i, with_hour[i].day_of_week, with_hour[i].hour>> :
                                i \in 1..Len(t)}, 2))]
    ELSE [table |-> t,
          chart |-> Chart("", ValueCounts(
                        {<<i, t[i].alert_type>> : i \in 1..Len(t)}, 2))]

SecurityRows ==
    {[invoice_date |-> d, alert_type |-> "Fraud", severity |-> "High"] :
        d \in {Today - 1, Today - 2, Today - 8}}
      \cup {[alert_type |-> a, severity |-> "Medium"] :
              a \in {"Fraud", "Suspicious"}}

DURATION_OUTLIER_PERCENTILE == 95


\* 100 * Series.quantile(q / 100), pandas' linear interpolation
Quantile100(s, q) ==
    LET sorted == SortSeq(s, LAMBDA a, b : a < b)
        pos    == q * (Len(s) - 1)
        k      == pos \div 100
        frac   == pos % 100
    IN  IF frac = 0 THEN 100 * sorted[k + 1]
        ELSE 100 * sorted[k + 1] + frac * (sorted[k + 2] - sorted[k + 1])

\* music/visualization.py create_duration_distribution(album_df)
create_duration_distribution(t) ==
    IF t = <<>> \/ "total_duration_minutes" \notin DOMAIN t[1]
       \/ "track_count" \notin DOMAIN t[1]
    THEN Chart("", <<>>)     \* px.scatter(title=...): a title, no annotation
    ELSE LET p95_dur == Quantile100(
                 [i \in 1..Len(t) |-> t[i].total_duration_minutes],
                 DURATION_OUTLIER_PERCENTILE)
         IN  Chart("", SelectSeq(t, LAMBDA r :
                           100 * r.total_duration_minutes <= p95_dur))

AlbumRows ==
    {[track_count |-> 10, total_duration_minutes |-> m, album_revenue |-> 990] :
        m \in {40, 45, 300}}
      \cup {[track_count |-> 10, album_revenue |-> 990]}

RenderAnomalyChart ==
    /\ df = NoResult
    /\ \E t \in TablesOf(AnomalyRows) :
         /\ df' = [query |-> "revenue_anomalies",
                   caller |-> "create_anomaly_chart",
                   params |-> <<>>, rows |-> t]
         /\ fig' = Figure("create_anomaly_chart", t,
                          {"alert_date", "daily_revenue", "rolling_avg",
                           "severity"},
                          create_anomaly_chart(t))
    /\ UNCHANGED <<dbVars, page, pc, screen, engine_built, last_call, session,
                   cache, sent, executed>>

RenderAlertHeatmap ==
    /\ df = NoResult
    /\ \E t \in TablesOf(SecurityRows) :
         /\ df' = [query |-> "fraud_detection",
                   caller |-> "create_alert_heatmap",
                   params |-> <<>>, rows |-> create_alert_heatmap(t).table]
         /\ fig' = Figure("create_alert_heatmap", t,
                          {"invoice_date", "alert_type", "severity"},
                          create_alert_heatmap(t).chart)
    /\ UNCHANGED <<dbVars, page, pc, screen, engine_built, last_call, session,
                   cache, sent, executed>>

RenderDurationDistribution ==
    /\ df = NoResult
    /\ \E t \in TablesOf(AlbumRows) :
         /\ df' = [query |-> "album_analytics",
                   caller |-> "create_duration_distribution",
                   params |-> <<>>, rows |-> t]
         /\ fig' = Figure("create_duration_distribution", t,
                          {"album_title", "artist_name", "track_count",
                           "total_sales", "album_revenue", "avg_track_price",
                           "avg_track_duration", "total_duration_minutes"},
                          create_duration_distribution(t))
    /\ UNCHANGED <<dbVars, page, pc, screen, engine_built, last_call, session,
                   cache, sent, executed>>

RenderGeographicPieChart ==
    /\ df = NoResult
    /\ \E t \in GeographicRows :
         LET geographic_df == [i \in 1..Len(t) |->
                                  [country |-> i, total_revenue |-> t[i]]]
         IN  /\ df' = [query |-> "geographic_analysis",
                       caller |-> "create_geographic_pie_chart",
                       params |-> <<>>, rows |-> geographic_df]
             /\ fig' = Figure("create_geographic_pie_chart", geographic_df,
                              {"country", "customers", "invoices",
                               "total_revenue", "avg_invoice_amount",
                               "revenue_per_customer", "market_share_percent"},
                              IF create_geographic_pie_chart(t) = "ValueError"
                              THEN Raises("ValueError") ELSE Chart("", t))
    /\ UNCHANGED <<dbVars, page, pc, screen, engine_built, last_call, session,
                   cache, sent, executed>>

\* customers/visualization.py create_churn_histogram(churn_df): px.histogram
\* raises ValueError when x or color names no column of the table
create_churn_histogram(t, columns) ==
    IF ColumnsRead("create_churn_histogram", columns, Len(t)) \subseteq columns
    THEN Chart("", [i \in 1..Len(t) |-> <<t[i].days_since_last,
                                          t[i].churn_status>>])
    ELSE Raises("ValueError")

\* Rows of get_churn_analysis_query
ChurnColumns ==
    {"customer_id", "customer_name", "country", "last_purchase_date",
     "total_orders", "total_value", "avg_order_value",
     "days_since_last_purchase", "churn_status", "value_tier"}

ChurnChartRows ==
    {[customer_id |-> c, customer_name |-> "name", country |-> "country",
      last_purchase_date |-> Today - days, total_orders |-> 1,
      total_value |-> 2500, avg_order_value |-> 2500,
      days_since_last_purchase |-> days,
      churn_status |-> ChurnStatus(<<days>>, CHURN_MONTHS_DEFAULT,
                                   CHURN_MONTHS_DEFAULT \div 2),
      value_tier |-> "Medium"] : c \in Customers, days \in {90, 91, 181}}

\* customers.py lines 236-237: fig2 = create_churn_histogram(churn_df)
RenderChurnHistogram ==
    /\ df = NoResult
    /\ \E t \in TablesOf(ChurnChartRows) :
         /\ df' = [query |-> "churn_analysis",
                   caller |-> "create_churn_histogram",
                   params |-> <<>>, rows |-> t]
         /\ fig' = Figure("create_churn_histogram", t, ChurnColumns,
                          create_churn_histogram(t, ChurnColumns))
    /\ UNCHANGED <<dbVars, page, pc, screen, engine_built, last_call, session,
                   cache, sent, executed>>

(***************************************************************************)
(* C17.  Every column a chart function or a page reads from a query        *)
(* result is a column the query template defines.                          *)
(***************************************************************************)
C17_ColumnsDefined ==
    fig.function # "none" => fig.reads \subseteq fig.columns

(***************************************************************************)
(* C12.  Every chart-building function, called with a zero-row table,      *)
(* returns a chart that carries an explicit 'no data' annotation, and      *)
(* does not raise.                                                         *)
(***************************************************************************)
C12_EmptyTableAnnotated ==
    (fig.function # "none" /\ fig.given = <<>>) =>
        (~fig.chart.raised /\ fig.chart.annotation # "")

(***************************************************************************)
(* C13.  A caller of run_query cannot tell a failed query from a           *)
(* successful one without rows: the table run_query returns is the same    *)
(* in both cases, and the page section takes the same 'no data' branch.    *)
(***************************************************************************)
\* The table a call handed back to its caller
DataFrame(call) == [columns |-> call.columns, rows |-> call.rows]

\* The elements of section sec on the screen, in order
SectionElements(sec) ==
    LET es == SelectSeq(screen, LAMBDA e : e.section = sec)
    IN  [i \in 1..Len(es) |-> es[i].element]

\* The section whose run_query call is last_call, when there is one that
\* has a 'no data' branch
SectionOfLastCall ==
    IF page = "alerts" /\ pc = "albums" THEN "tracks"
    ELSE IF page = "alerts" /\ pc = "footer" THEN "albums"
    ELSE IF page = "customers" /\ pc = "footer" THEN "clustering"
    ELSE "none"

C13_FailureIndistinguishable ==
    (/\ SectionOfLastCall # "none"
     /\ last_call.made /\ ~last_call.raised /\ last_call.rows = <<>>)
      => /\ DataFrame(last_call)
              = DataFrame(run_query(TRUE, [ok |-> TRUE, rows |-> <<>>]))
         /\ ShowsNoData(SectionOfLastCall)

\* Amended: both calls return a table without rows and the section takes
\* its 'no data' branch in both cases, rendering the same elements; the
\* failed call is told apart by its table, which has no columns, and by the
\* 'Database error' message run_query emitted.
C13_SameBranchOnly ==
    (/\ SectionOfLastCall # "none"
     /\ last_call.made /\ ~last_call.raised /\ last_call.rows = <<>>)
      => /\ ShowsNoData(SectionOfLastCall)
         /\ SelectSeq(SectionElements(SectionOfLastCall),
                      LAMBDA e : e # "Database error")
              \in {<<"heading", "info">>, <<"heading", "warning">>}
         /\ (last_call.columns = {}) <=> ~last_call.execution_ok
         /\ (\E i \in 1..Len(screen) :
               /\ screen[i].section = SectionOfLastCall
               /\ screen[i].element = "Database error")
              <=> ~last_call.execution_ok

\* The RFM query of the Clustering view failed and the view shows its
\* warning
C13_Witness ==
    /\ page = "customers" /\ pc = "footer"
    /\ last_call.made /\ ~last_call.raised /\ ~last_call.execution_ok
    /\ last_call.rows = <<>>
    /\ SectionElements("clustering") = <<"heading", "Database error", "warning">>

(***************************************************************************)
(* Row order.  A statement's result is a sequence of rows; where the       *)
(* statement leaves the order of two rows open (no ORDER BY, or equal      *)
(* sort keys), the server may return them either way, and a LIMIT then     *)
(* keeps whichever come first.                                             *)
(***************************************************************************)
\* The sequences that list every row of the set R once
Orderings(R) ==
    {s \in [1..Cardinality(R) -> R] :
        \A i, j \in 1..Cardinality(R) : s[i] = s[j] => i = j}

\* get_rfm_clustering_query: the final SELECT has no ORDER BY
RfmClusteringResults(tbl, params) == Orderings(RfmClusteringQuery(tbl, params))

\* get_track_performance_query: HAVING COUNT(il.invoice_line_id) >= %s
\* ORDER BY times_purchased DESC LIMIT %s; params are the third and fourth
\* bindings, sales the purchases of the period
TrackPerformanceResults(sales, params) ==
    LET having == {[track_name |-> t, times_purchased |-> sales[t]] :
                     t \in {x \in Tracks : sales[x] >= params[1]}}
        ordered == {s \in Orderings(having) :
                      \A i \in 1..(Len(s) - 1) :
                        s[i].times_purchased >= s[i + 1].times_purchased}
    IN  {Limit(s, params[2]) : s \in ordered}

MIN_TRACK_SALES == 1
MUSIC_TRACK_LIMIT == 100
MaxOrderSales == 2

\* Database contents of the row-order runs
OrderInvoices ==
    {InvoiceRow(1, 91, 800, 1), InvoiceRow(2, 91, 800, 1),
     InvoiceRow(2, 366, 900, 1)}

InitOrder ==
    /\ invoice \in {SetToBag(S) : S \in SUBSET OrderInvoices}
    /\ track_sales \in [Tracks -> 0..MaxOrderSales]
    /\ df = NoResult
    /\ engine_built = TRUE
    /\ InitPage

\* music.py line 141: run_query(get_track_performance_query(), (start_d,
\* end_d, MIN_TRACK_SALES, TRACK_LIMIT)), and the same with a short limit
RunTrackPerformanceQuery ==
    /\ df = NoResult
    /\ \E limit \in {MUSIC_TRACK_LIMIT, ShortLimit} :
         \E rows \in TrackPerformanceResults(track_sales,
                                             <<MIN_TRACK_SALES, limit>>) :
           df' = [query |-> "track_performance", caller |-> "row order",
                  params |-> <<MIN_TRACK_SALES, limit>>, rows |-> rows]
    /\ UNCHANGED <<dbVars, pageVars>>

\* customers.py line 154: run_query(get_rfm_clustering_query(), ...)
RunRfmClusteringQuery ==
    /\ df = NoResult
    /\ \E w \in Windows :
         LET params == <<w[1], w[2], w[1], w[2]>>
         IN  \E rows \in RfmClusteringResults(invoice, params) :
               df' = [query |-> "rfm_clustering", caller |-> "row order",
                      params |-> params, rows |-> rows]
    /\ UNCHANGED <<dbVars, pageVars>>

(***************************************************************************)
(* C14.  Every query template fixes the order of its rows with an ORDER    *)
(* BY: two executions with the same parameters on the same database        *)
(* content return the same rows in the same order, that is, the result     *)
(* in hand is the only one the statement can return.                       *)
(***************************************************************************)
C14_RowOrderFixed ==
    df.caller = "row order" =>
      \A rows \in (IF df.query = "rfm_clustering"
                   THEN RfmClusteringResults(invoice, df.params)
                   ELSE TrackPerformanceResults(track_sales, df.params)) :
        rows = df.rows

(***************************************************************************)
(* Queries bound to (start_date, end_date).  Day 1 is the first of         *)
(* January of a year of 365 days; DATE_TRUNC('month', d) is the first day  *)
(* of the month of d.                                                      *)
(***************************************************************************)
MonthLengths == <<31, 28, 31, 30, 31, 30, 31, 31, 30, 31, 30, 31>>

RECURSIVE MonthsBefore(_)
\* The days of the first m months, counted from day 1
MonthsBefore(m) ==
    IF m = 0 THEN 0 ELSE MonthLengths[((m - 1) % 12) + 1] + MonthsBefore(m - 1)

DateTruncMonth(d) ==
    SetMax({1 + MonthsBefore(m) : m \in {k \in 0..24 : 1 + MonthsBefore(k) <= d}})

\* get_customer_journey_query without its date filter
CustomerJourneyAllTimeBug(tbl, params) ==
    {[customer_id    |-> c,
      first_purchase |-> -SetMax({-r.invoice_date :
                                    r \in {x \in DOMAIN tbl : x.customer_id = c}}),
      last_purchase  |-> MaxDate({x \in DOMAIN tbl : x.customer_id = c}),
      total_orders   |-> CountRows(tbl, {x \in DOMAIN tbl : x.customer_id = c})] :
     c \in {x.customer_id : x \in DOMAIN tbl}}
\* get_customer_journey_query: MIN and MAX of invoice_date over the
\* customer's invoices of the period
CustomerJourneyQuery(tbl, params) ==
    LET InWin(c) == {r \in DOMAIN tbl :
                        /\ r.customer_id = c
                        /\ Between(r.invoice_date, params[1], params[2])}
    IN  {[customer_id    |-> c,
          first_purchase |-> -SetMax({-r.invoice_date : r \in InWin(c)}),
          last_purchase  |-> MaxDate(InWin(c)),
          total_orders   |-> CountRows(tbl, InWin(c))] :
         c \in {c \in Customers : InWin(c) # {}}}

\* get_trend_analysis_query: one row per invoice date of the period (and
\* genre, left out: every line is of one genre here)
TrendAnalysisQuery(tbl, params) ==
    LET InWin == {r \in DOMAIN tbl :
                     Between(r.invoice_date, params[1], params[2])}
    IN  {[sale_date     |-> d,
          quantity_sold |-> SetSum([r \in InWin |-> tbl[r] * r.items],
                                   {r \in InWin : r.invoice_date = d})] :
         d \in {r.invoice_date : r \in InWin}}

\* get_cohort_analysis_query: customer_cohorts reads every invoice,
\* customer_purchases those of the period
CohortAnalysisQuery(tbl, params) ==
    LET customer_cohorts ==
            {[customer_id  |-> c,
              cohort_month |-> DateTruncMonth(-SetMax({-r.invoice_date :
                                   r \in {x \in DOMAIN tbl : x.customer_id = c}}))] :
             c \in {x.customer_id : x \in DOMAIN tbl}}
        joined ==
            {j \in customer_cohorts \X DOMAIN tbl :
                /\ j[1].customer_id = j[2].customer_id
                /\ Between(j[2].invoice_date, params[1], params[2])}
        customer_purchases ==
            {[customer_id    |-> j[1].customer_id,
              cohort_month   |-> j[1].cohort_month,
              purchase_month |-> DateTruncMonth(j[2].invoice_date)] :
             j \in joined}
    IN  {[cohort_month   |-> g[1],
          purchase_month |-> g[2],
          customers      |-> Cardinality({cp.customer_id : cp \in
                                 {x \in customer_purchases :
                                     /\ x.cohort_month = g[1]
                                     /\ x.purchase_month = g[2]}}),
          cohort_size    |-> Cardinality({cc \in customer_cohorts :
                                            cc.cohort_month = g[1]})] :
         g \in {<<cp.cohort_month, cp.purchase_month>> :
                  cp \in customer_purchases}}

MaxDateInvoices == 3

DateInvoices ==
    {InvoiceRow(c, age, 800, 1) : c \in Customers, age \in {25, 29, 31, 300}}

InsertDateInvoice ==
    /\ Insert(DateInvoices, MaxDateInvoices)
    /\ UNCHANGED <<track_sales, df, pageVars>>

\* The periods of the date input: one starts in the middle of a month
DateWindows == {<<Today - 30, Today>>, <<Today - 366, Today - 91>>}

RunCustomerJourneyQuery ==
    /\ df = NoResult
    /\ \E w \in DateWindows :
         df' = [query |-> "customer_journey", caller |-> "date range",
                params |-> w, rows |-> CustomerJourneyQuery(invoice, w)]
    /\ UNCHANGED <<dbVars, pageVars>>

\* music.py line 471: run_query(get_trend_analysis_query(), (start_d, end_d))
RunTrendAnalysisQuery ==
    /\ df = NoResult
    /\ \E w \in DateWindows :
         df' = [query |-> "trend_analysis", caller |-> "date range",
                params |-> w, rows |-> TrendAnalysisQuery(invoice, w)]
    /\ UNCHANGED <<dbVars, pageVars>>

RunCohortAnalysisQuery ==
    /\ df = NoResult
    /\ \E w \in DateWindows :
         df' = [query |-> "cohort_analysis", caller |-> "date range",
                params |-> w, rows |-> CohortAnalysisQuery(invoice, w)]
    /\ UNCHANGED <<dbVars, pageVars>>

\* The date values of a row of a date-range result
DateValues(query, row) ==
    IF query = "customer_journey" THEN {row.first_purchase, row.last_purchase}
    ELSE IF query = "trend_analysis" THEN {row.sale_date}
    ELSE {row.cohort_month, row.purchase_month}

(***************************************************************************)
(* C15.  For every query bound to (start_date, end_date) with start_date   *)
(* <= end_date, every date value of every returned row lies in             *)
(* [start_date, end_date].                                                 *)
(***************************************************************************)
C15_DatesInRange ==
    (df.caller = "date range" /\ df.params[1] <= df.params[2]) =>
      \A row \in df.rows : \A d \in DateValues(df.query, row) :
        Between(d, df.params[1], df.params[2])

\* Amended: the dates taken from invoices (sale_date, first_purchase,
\* last_purchase) lie in the period; purchase_month is the first day of the
\* month of an invoice of the period, so it lies between the first day of
\* the month of start_date and end_date; cohort_month is the first day of
\* the month of the customers' first invoice ever and is only bounded by
\* purchase_month.
C15_InvoiceDatesInRange ==
    (df.caller = "date range" /\ df.params[1] <= df.params[2]) =>
      \A row \in df.rows :
        IF df.query = "cohort_analysis"
        THEN /\ Between(row.purchase_month, DateTruncMonth(df.params[1]),
                        df.params[2])
             /\ row.cohort_month <= row.purchase_month
             /\ DateTruncMonth(row.cohort_month) = row.cohort_month
             /\ DateTruncMonth(row.purchase_month) = row.purchase_month
        ELSE \A d \in DateValues(df.query, row) :
               Between(d, df.params[1], df.params[2])

\* A cohort row whose two months both precede the start of the period
C15_Witness ==
    /\ df.caller = "date range" /\ df.query = "cohort_analysis"
    /\ \E row \in df.rows :
         /\ row.purchase_month < df.params[1]
         /\ row.cohort_month < row.purchase_month

(***************************************************************************)
(* sql_explorer.py and data_operations.py: the free SQL query section.     *)
(* The text of the text area goes unchanged to run_sql_query, which        *)
(* st.cache_data memoizes on (sql, params): a call whose arguments are in  *)
(* the store returns the stored table without running the function body;   *)
(* a call that raises stores nothing.  sent is the set of statements       *)
(* pd.read_sql handed to the server.                                       *)
(***************************************************************************)
SelectCountInvoices == "SELECT COUNT(*) FROM invoice"
DeleteInvoices == "DELETE FROM invoice RETURNING invoice_id"

\* What the user can have typed in the text area
UserSql == {SelectCountInvoices, DeleteInvoices}

IsReadQuery(sql) == sql = SelectCountInvoices

\* The outcomes [ok, rows, invoice] of the server executing sql on the
\* invoice table tbl.  Whether the rows a DELETE removed stay removed
\* depends on whether the connection pandas used commits (the installed
\* pandas and SQLAlchemy decide).
ServerExecutions(sql, tbl) ==
    {[ok |-> FALSE, rows |-> <<>>, invoice |-> tbl]} \cup
    (IF sql = SelectCountInvoices
     THEN {[ok |-> TRUE, rows |-> <<BagCardinality(tbl)>>, invoice |-> tbl]}
     ELSE {[ok |-> TRUE,
            rows |-> [i \in 1..BagCardinality(tbl) |-> "invoice_id"],
            invoice |-> after] : after \in {tbl, EmptyBag}})

\* run_sql_query without the st.cache_data decorator
RunSqlQueryUncachedBug(store, built, sql, execution) ==
    LET call == run_query(built, execution)
    IN  [hit |-> FALSE, call |-> call, store |-> store]
\* run_sql_query(sql): [hit, call, store], the run_query call it made (NoCall
\* on a hit) and the store after it; params is None in the only call
run_sql_query(store, built, sql, execution) ==
    IF <<sql, Null>> \in DOMAIN store
    THEN [hit |-> TRUE, call |-> NoCall, store |-> store]
    ELSE LET call == run_query(built, execution)
         IN  [hit |-> FALSE, call |-> call,
              store |-> IF call.raised THEN store
                        ELSE [k \in DOMAIN store \cup {<<sql, Null>>} |->
                                 IF k = <<sql, Null>> THEN DataFrame(call)
                                 ELSE store[k]]]

\* sql_explorer.py main(): sidebar, then the sections
SqlExplorerHeader ==
    /\ pc = "idle"
    /\ page' = "sql"
    /\ pc' = "list tables button"
    /\ screen' = Elements("sidebar", <<"database info", "buttons">>)
    /\ UNCHANGED <<queryVars, engine_built, last_call, session, toolVars>>

TABLES_DF_KEY == "tables_df"
TABLES_DF_ERROR_KEY == "tables_df_error"
STATS_DF_KEY == "stats_df"
STATS_DF_ERROR_KEY == "stats_df_error"

\* A key of st.session_state is absent (Null) or holds <<value>>
Has(state, key) == state[key] # Null

\* st.session_state[key] = value
Store(state, key, value) == [state EXCEPT ![key] = <<value>>]

\* A display function that would read the key with get
GetKeepsKeyBug(state, key) == state
\* st.session_state.pop(key)
Pop(state, key) == [state EXCEPT ![key] = Null]

\* get_tables_list_query: the tables of the public schema
TablesListRows == {<<"invoice">>}

\* _handle_list_tables_button(): the button is not pressed, or list_tables()
\* runs and its table, or the text of the exception it raised, is stored
_handle_list_tables_button ==
    /\ page = "sql" /\ pc = "list tables button"
    /\ \/ UNCHANGED <<last_call, executed, session, screen>>
       \/ \E execution \in Executions(TablesListRows) :
            LET call == run_query(engine_built, execution)
            IN  /\ last_call' = call
                /\ executed' = executed \o Invocations("sidebar",
                                   "get_tables_list_query", call)
                /\ screen' = screen \o Elements("sidebar", call.errors)
                /\ session' =
                     IF call.raised
                     THEN Store(session, TABLES_DF_ERROR_KEY, "exception")
                     ELSE Store(session, TABLES_DF_KEY, DataFrame(call))
    /\ pc' = "table stats button"
    /\ UNCHANGED <<queryVars, page, engine_built, fig, cache, sent>>

\* _get_table_statistics(table_name): the row of one table; an empty count
\* result gives row_count 0 and an empty info result the fallback values
TableStatistics(table_name, count, info) ==
    [table_name |-> table_name,
     row_count |-> IF count.rows # <<>> THEN "row_count" ELSE "0",
     size_bytes |-> IF info.rows # <<>> THEN "size_bytes" ELSE "fallback"]

\* get_table_statistics(): [raised, calls, rows].  pd.DataFrame([]) has no
\* column size_bytes, and sort_values raises KeyError on it
get_table_statistics(built, tables, count, info) ==
    LET tables_call == run_query(built, tables)
        count_call == run_query(built, count)
        info_call == run_query(built, info)
        first == Invocations("sidebar", "get_tables_list_query", tables_call)
    IN  IF tables_call.raised \/ tables_call.rows = <<>>
        THEN [raised |-> TRUE, last |-> tables_call, calls |-> first,
              errors |-> tables_call.errors, rows |-> <<>>]
        ELSE [raised |-> FALSE, last |-> info_call,
              calls |-> first
                 \o Invocations("sidebar", "get_table_row_count_query",
                                count_call)
                 \o Invocations("sidebar", "get_table_info_query", info_call),
              errors |-> count_call.errors \o info_call.errors,
              rows |-> <<TableStatistics(tables_call.rows[1], count_call,
                                         info_call)>>]

\* _handle_table_stats_button(): pressed only in a run that List tables did
\* not start
_handle_table_stats_button ==
    /\ page = "sql" /\ pc = "table stats button"
    /\ \/ UNCHANGED <<last_call, executed, session, screen>>
       \/ /\ ~Has(session, TABLES_DF_KEY) /\ ~Has(session, TABLES_DF_ERROR_KEY)
          /\ \E tables \in Executions(TablesListRows),
                count \in Executions(SomeRows), info \in Executions(SomeRows) :
               LET stats == get_table_statistics(engine_built, tables, count,
                                                 info)
               IN  /\ last_call' = stats.last
                   /\ executed' = executed \o stats.calls
                   /\ screen' = screen \o Elements("sidebar", stats.errors)
                   /\ session' =
                        IF stats.raised
                        THEN Store(session, STATS_DF_ERROR_KEY, "exception")
                        ELSE Store(session, STATS_DF_KEY, stats.rows)
    /\ pc' = "tables list"
    /\ UNCHANGED <<queryVars, page, engine_built, fig, cache, sent>>

\* _display_tables_list()
_display_tables_list ==
    /\ page = "sql" /\ pc = "tables list"
    /\ screen' = screen \o Elements("tables list",
         (IF Has(session, TABLES_DF_ERROR_KEY) THEN <<"error">> ELSE <<>>)
           \o (IF Has(session, TABLES_DF_KEY)
               THEN <<"heading", "dataframe">> ELSE <<>>))
    /\ session' = Pop(Pop(session, TABLES_DF_ERROR_KEY), TABLES_DF_KEY)
    /\ pc' = "table statistics"
    /\ UNCHANGED <<queryVars, page, engine_built, last_call, toolVars>>

\* _display_table_statistics()
_display_table_statistics ==
    /\ page = "sql" /\ pc = "table statistics"
    /\ screen' = screen \o Elements("table statistics",
         (IF Has(session, STATS_DF_ERROR_KEY) THEN <<"error">> ELSE <<>>)
           \o (IF Has(session, STATS_DF_KEY)
               THEN <<"heading">> \o
                    (IF session[STATS_DF_KEY][1] # <<>>
                     THEN <<"metrics", "dataframe">> ELSE <<>>)
               ELSE <<>>))
    /\ session' = Pop(Pop(session, STATS_DF_ERROR_KEY), STATS_DF_KEY)
    /\ pc' = "free sql query"
    /\ UNCHANGED <<queryVars, page, engine_built, last_call, toolVars>>

\* The run was started by one of the sidebar's buttons: its display
\* function rendered what the handler stored
SidebarButtonPressed ==
    \E i \in 1..Len(screen) :
      screen[i].section \in {"tables list", "table statistics"}

\* _display_sql_query_section(): the Execute query button is pressed with
\* user_sql in the text area, or is not pressed
_display_sql_query_section ==
    /\ page = "sql" /\ pc = "free sql query"
    /\ \/ /\ screen' = screen \o Elements("free sql query",
                                          <<"heading", "text_area", "button">>)
          /\ UNCHANGED <<invoice, df, last_call, cache, sent, executed>>
       \/ ~SidebarButtonPressed /\ \E user_sql \in UserSql :
          \E execution \in ServerExecutions(user_sql, invoice) :
            LET result == run_sql_query(cache, engine_built, user_sql,
                                        execution)
                contacted == ~result.hit /\ ~result.call.raised
            IN  /\ last_call' = result.call
                /\ cache' = result.store
                /\ sent' = IF contacted THEN sent \cup {user_sql} ELSE sent
                /\ executed' = executed \o
                     Invocations("free sql query", user_sql, result.call)
                /\ invoice' = IF contacted THEN execution.invoice ELSE invoice
                /\ df' = IF result.call.raised THEN NoResult
                         ELSE [query  |-> user_sql,
                               caller |-> "run_sql_query",
                               params |-> <<>>,
                               rows   |-> IF result.hit
                                          THEN cache[<<user_sql, Null>>].rows
                                          ELSE result.call.rows]
                /\ screen' = screen \o Elements("free sql query",
                     <<"heading", "text_area", "button">> \o
                     (IF result.call.raised THEN <<"Error">>
                      ELSE result.call.errors \o <<"dataframe">>))
    /\ pc' = "footer"
    /\ UNCHANGED <<track_sales, page, engine_built, session, fig>>

(***************************************************************************)
(* C16.  No sequence of user interactions makes the application send a     *)
(* statement that modifies the database: every statement sent, the free    *)
(* text of the SQL Explorer included, is a read query.                     *)
(***************************************************************************)
C16_OnlyReadQueries == \A sql \in sent : IsReadQuery(sql)

(***************************************************************************)
(* Ranked tables.  The page sorts the query result with                    *)
(* DataFrame.sort_values(by, ascending=False), whose default kind is       *)
(* quicksort: rows with equal keys come out in an order the installed      *)
(* numpy decides.  The '#' column is range(1, len + 1) in row order.       *)
(***************************************************************************)
\* sort_values with ascending=True
SortValuesAscendingBug(t, by) ==
    {[i \in 1..Len(t) |-> t[order[i]]] :
        order \in {o \in Orderings(1..Len(t)) :
                     \A i \in 1..(Len(t) - 1) : t[o[i]][by] <= t[o[i + 1]][by]}}
\* t.sort_values(by, ascending=False): the tables it can return
sort_values(t, by) ==
    {[i \in 1..Len(t) |-> t[order[i]]] :
        order \in {o \in Orderings(1..Len(t)) :
                     \A i \in 1..(Len(t) - 1) : t[o[i]][by] >= t[o[i + 1]][by]}}

\* The stable descending sort: rows with equal keys keep their order
StableSortValues(t, by) ==
    CHOOSE sorted \in sort_values([i \in 1..Len(t) |->
                                      [position |-> i, row |-> t[i],
                                       key |-> t[i][by]]], "key") :
      \A i \in 1..(Len(t) - 1) :
        sorted[i].key = sorted[i + 1].key
          => sorted[i].position < sorted[i + 1].position

\* display_df.insert(0, "#", range(1, len(display_df) + 1))
_create_data_table(display_df) ==
    [i \in 1..Len(display_df) |-> [rank |-> i, row |-> display_df[i]]]

\* Rows of get_top_clients_query with the page's diversity_score, in
\* quarters: nb_different_genres * 2 + nb_different_artists +
\* nb_different_albums
TopClientRows ==
    {[client |-> c, nb_different_genres |-> g, nb_different_artists |-> g,
      nb_different_albums |-> g, diversity_score |-> 2 * g + g + g] :
        c \in Customers \cup {3}, g \in {1, 2}}

MaxRankedRows == 3

\* Query results of up to MaxRankedRows rows, one per client
TopClientTables ==
    UNION {{t \in [1..n -> TopClientRows] :
              \A i, j \in 1..n : t[i].client = t[j].client => i = j} :
           n \in 0..MaxRankedRows}

\* customers.py lines 362-388: Top Clients view, By Diversity
RankByDiversity ==
    /\ df = NoResult
    /\ \E top_clients_df \in TopClientTables :
         \E sorted_df \in sort_values(top_clients_df, "diversity_score") :
           df' = [query |-> "top_clients", caller |-> "By Diversity",
                  params |-> <<top_clients_df>>,
                  rows |-> _create_data_table(sorted_df)]
    /\ UNCHANGED <<dbVars, pageVars>>

\* alerts.py lines 82-93: the Tracks table, in the order of the result
AlertsTracksTable ==
    /\ df = NoResult
    /\ LET tracks_df == LowPerformanceTracksQuery(
                            track_sales, <<MIN_SALES_THRESHOLD, TRACK_LIMIT>>)
       IN  df' = [query |-> "low_performance_tracks",
                  caller |-> "_create_data_table",
                  params |-> <<tracks_df>>,
                  rows |-> _create_data_table(tracks_df)]
    /\ UNCHANGED <<dbVars, pageVars>>

RankedTable == df.caller \in {"By Diversity", "_create_data_table"}

Numbered == \A i \in 1..Len(df.rows) : df.rows[i].rank = i

(***************************************************************************)
(* C18.  In every ranked table the rows are in descending order of the     *)
(* ranking metric, rows with equal metric keep the order of the query      *)
(* result (the sort is stable), and the '#' column numbers them 1..n.      *)
(***************************************************************************)
C18_StableRanking ==
    /\ RankedTable => Numbered
    /\ df.caller = "By Diversity" =>
         [i \in 1..Len(df.rows) |-> df.rows[i].row]
           = [i \in 1..Len(df.params[1]) |->
                 StableSortValues(df.params[1], "diversity_score")[i].row]

\* Amended: the rows a page sorted are the rows of the query result in
\* non-increasing order of the metric, rows with equal metric in any
\* order; a table the page does not sort (Alerts) keeps the order of the
\* query result; '#' is 1..n in both.
C18_DescendingRanking ==
    /\ RankedTable => Numbered
    /\ df.caller = "By Diversity" =>
         /\ Len(df.rows) = Len(df.params[1])
         /\ \A i \in 1..(Len(df.rows) - 1) :
              df.rows[i].row.diversity_score
                >= df.rows[i + 1].row.diversity_score
         /\ \A r \in TopClientRows :
              Cardinality({i \in 1..Len(df.rows) : df.rows[i].row = r})
                = Cardinality({i \in 1..Len(df.rows) : df.params[1][i] = r})
    /\ df.caller = "_create_data_table" =>
         [i \in 1..Len(df.rows) |-> df.rows[i].row] = df.params[1]

\* Two clients of equal score shown in the reverse of their query order
C18_Witness ==
    /\ df.caller = "By Diversity"
    /\ Len(df.rows) = 3
    /\ \E i \in 1..2 :
         /\ df.rows[i].row.diversity_score = df.rows[i + 1].row.diversity_score
         /\ df.rows[i].row = df.params[1][3]
         /\ df.rows[i + 1].row \in {df.params[1][1], df.params[1][2]}

(***************************************************************************)
(* C19.  The only memoization is the cache of the SQL Explorer's free      *)
(* query, keyed by the text and the parameters: the same text again is     *)
(* answered with the first result without contacting the database, no      *)
(* action of the user invalidates an entry, and every section of an        *)
(* analytics page runs its query on each run of the page.                  *)
(***************************************************************************)
\* The free query of this run was answered from the store
CacheHit == df.caller = "run_sql_query" /\ ~last_call.made

SqlCacheKept ==
    /\ CacheHit =>
         /\ <<df.query, Null>> \in DOMAIN cache
         /\ df.rows = cache[<<df.query, Null>>].rows
    /\ (df.caller = "run_sql_query" /\ last_call.made) =>
         /\ <<df.query, Null>> \in DOMAIN cache
         /\ cache[<<df.query, Null>>] = DataFrame(last_call)

\* No step changes or removes an entry of the store
EntriesKept ==
    \A k \in DOMAIN cache : k \in DOMAIN cache' /\ cache'[k] = cache[k]

C20_TableNotModified == fig.function # "none" => df.rows = fig.given

(***************************************************************************)
(* customers.py _create_cluster_summary_table: one row per rfm_cluster     *)
(* with Total_Revenue, Nb_Customers and their shares of the totals in      *)
(* percent, rounded to one decimal.  Shares are in tenths of a percent;    *)
(* a share of a zero total is 0.0 / 0.0, NaN, written Null.                *)
(***************************************************************************)
\* (num / den * 100).round(1) in tenths, numpy rounding half to even
RoundedShare(num, den) ==
    IF den = 0 THEN Null
    ELSE LET q == (1000 * num) \div den
             r == (1000 * num) % den
         IN  IF 2 * r < den THEN <<q>>
             ELSE IF 2 * r > den THEN <<q + 1>>
             ELSE IF q % 2 = 0 THEN <<q>> ELSE <<q + 1>>

_create_cluster_summary_table(rfm_df) ==
    LET clusters == {r.rfm_cluster : r \in rfm_df}
        Members(c) == {r \in rfm_df : r.rfm_cluster = c}
        Total_Revenue(c) == SetSum([r \in rfm_df |-> r.monetary], Members(c))
        total_revenue == SetSum([r \in rfm_df |-> r.monetary], rfm_df)
        total_customers == Cardinality(rfm_df)
    IN  {[rfm_cluster         |-> c,
          Total_Revenue       |-> Total_Revenue(c),
          Nb_Customers        |-> Cardinality(Members(c)),
          Revenue_Proportion  |-> RoundedShare(Total_Revenue(c), total_revenue),
          Customer_Proportion |-> RoundedShare(Cardinality(Members(c)),
                                               total_customers)] :
         c \in clusters}

MaxSummaryInvoices == 3

\* Invoices of the summary runs; an invoice can have a total of 0.00
SummaryInvoices ==
    {InvoiceRow(c, age, total, 1) :
        c \in Customers, age \in {10, 200}, total \in {0, 1000, 2000}}

InsertSummaryInvoice ==
    /\ Insert(SummaryInvoices, MaxSummaryInvoices)
    /\ UNCHANGED <<track_sales, df, pageVars>>

\* customers.py lines 154-170: the Clustering view builds the table from
\* the result of the RFM query when the result is not empty
ClusterSummaryTable ==
    /\ df = NoResult
    /\ \E w \in Windows :
         LET params == <<w[1], w[2], w[1], w[2]>>
             rfm_df == RfmClusteringQuery(invoice, params)
         IN  /\ rfm_df # {}
             /\ df' = [query  |-> "rfm_clustering",
                       caller |-> "_create_cluster_summary_table",
                       params |-> params,
                       rows   |-> _create_cluster_summary_table(rfm_df)]
    /\ UNCHANGED <<dbVars, pageVars>>

\* Series.sum() of a column of shares: NaN entries are skipped
SumShares(R, col) ==
    SetSum([r \in R |-> IF IsNull(r[col]) THEN 0 ELSE r[col][1]], R)

Distance(a, b) == IF a < b THEN b - a ELSE a - b

(***************************************************************************)
(* C21.  In the cluster summary table of any non-empty RFM result the      *)
(* Revenue_Proportion values and the Customer_Proportion values each sum   *)
(* to 100 over the clusters, up to the rounding of each entry to one       *)
(* decimal (half a tenth per entry).                                       *)
(***************************************************************************)
C21_ProportionsSumTo100 ==
    df.caller = "_create_cluster_summary_table" =>
      /\ 2 * Distance(SumShares(df.rows, "Revenue_Proportion"), 1000)
           <= Cardinality(df.rows)
      /\ 2 * Distance(SumShares(df.rows, "Customer_Proportion"), 1000)
           <= Cardinality(df.rows)

(***************************************************************************)
(* The end-to-end scenario of the RFM query: invoices 10, 95 and 200 days  *)
(* ago with totals 30.00, 20.00 and 5.00, and invoices outside the period. *)
(***************************************************************************)
MaxScenarioInvoices == 4

ScenarioInvoices ==
    {InvoiceRow(c, x[1], x[2], 1) :
        c \in Customers,
        x \in {<<10, 3000>>, <<95, 2000>>, <<200, 500>>, <<400, 1000>>}}

InsertScenarioInvoice ==
    /\ Insert(ScenarioInvoices, MaxScenarioInvoices)
    /\ UNCHANGED <<track_sales, df, pageVars>>

\* The invoices of customer c dated in the period of the result in hand
InPeriod(c) ==
    {r \in DOMAIN invoice :
        /\ r.customer_id = c
        /\ df.params[1] <= r.invoice_date /\ r.invoice_date <= df.params[2]}

(***************************************************************************)
(* C22.  For each customer with an invoice in the period, the RFM query    *)
(* returns one row: recency_days is the number of days since the most      *)
(* recent invoice of the period, frequency the number of invoices of the   *)
(* period and monetary the sum of their totals.  Invoices 10, 95 and 200   *)
(* days ago, all in the period, with totals 30, 20 and 5 give recency 10,  *)
(* frequency 3, monetary 55 and the label Loyal Customers.                 *)
(***************************************************************************)
C22_RfmValues ==
    df.caller = "Clustering view" =>
      /\ \A c \in Customers :
           Cardinality({row \in df.rows : row.customer_id = c})
             = IF InPeriod(c) = {} THEN 0 ELSE 1
      /\ \A row \in df.rows :
           LET mine == InPeriod(row.customer_id)
           IN  /\ \E r \in mine : Today - r.invoice_date = row.recency_days
               /\ \A r \in mine : Today - r.invoice_date >= row.recency_days
               /\ row.frequency = BagCardinality([r \in mine |-> invoice[r]])
               /\ row.monetary =
                    SetSum([r \in mine |-> invoice[r] * r.total], mine)
               /\ (/\ {<<Today - r.invoice_date, r.total>> : r \in mine}
                        = {<<10, 3000>>, <<95, 2000>>, <<200, 500>>}
                   /\ \A r \in mine : invoice[r] = 1)
                    => /\ row.recency_days = 10 /\ row.frequency = 3
                       /\ row.monetary = 5500
                       /\ row.rfm_cluster = "Loyal Customers"

\* The scenario's customer, who also has an invoice before the period
C22_Witness ==
    /\ df.caller = "Clustering view"
    /\ \E r \in DOMAIN invoice :
         r.customer_id = 1 /\ r.invoice_date < df.params[1]
    /\ \E row \in df.rows :
         /\ row.customer_id = 1
         /\ row.recency_days = 10 /\ row.frequency = 3 /\ row.monetary = 5500
         /\ row.rfm_cluster = "Loyal Customers"

(***************************************************************************)
(* C23.  Each run_query call invokes pd.read_sql at most once.  When the   *)
(* execution fails, the failure is reported once, and no later call of the *)
(* same page run, by run_query or by the section that called it, sends the *)
(* same statement again.                                                   *)
(***************************************************************************)
\* The number of entries of the sequence s that satisfy nothing but being
\* the record r
RECURSIVE Occurrences(_, _)
Occurrences(s, r) ==
    IF s = <<>> THEN 0
    ELSE (IF Head(s) = r THEN 1 ELSE 0) + Occurrences(Tail(s), r)

\* The failed calls of pd.read_sql section sec made in this run
RECURSIVE FailedIn(_, _)
FailedIn(s, sec) ==
    IF s = <<>> THEN 0
    ELSE (IF Head(s).section = sec /\ ~Head(s).ok THEN 1 ELSE 0)
             + FailedIn(Tail(s), sec)

MUSIC_LOVER_MINUTES == 500
AMATEUR_MINUTES == 200
OCCASIONAL_MINUTES == 100
MillisecondsPerMinute == 60000

\* minutes >= threshold, a comparison that is False when minutes is NaN
MinutesAtLeast(minutes, threshold) ==
    minutes # Null /\ minutes[1] >= threshold * MillisecondsPerMinute

\* A page function whose first test would be a strict comparison
GetListeningProfileStrictBug(minutes) ==
    IF minutes # Null /\ minutes[1] > MUSIC_LOVER_MINUTES * MillisecondsPerMinute
    THEN "Music Lover"
    ELSE IF MinutesAtLeast(minutes, AMATEUR_MINUTES) THEN "Amateur"
    ELSE IF MinutesAtLeast(minutes, OCCASIONAL_MINUTES) THEN "Occasional"
    ELSE "Beginner"
\* customers.py lines 119-127
_get_listening_profile(minutes) ==
    IF MinutesAtLeast(minutes, MUSIC_LOVER_MINUTES) THEN "Music Lover"
    ELSE IF MinutesAtLeast(minutes, AMATEUR_MINUTES) THEN "Amateur"
    ELSE IF MinutesAtLeast(minutes, OCCASIONAL_MINUTES) THEN "Occasional"
    ELSE "Beginner"

\* customers/visualization.py lines 48-56, the definition of the same name
visualization_get_listening_profile(minutes) ==
    IF MinutesAtLeast(minutes, MUSIC_LOVER_MINUTES) THEN "Music Lover"
    ELSE IF MinutesAtLeast(minutes, AMATEUR_MINUTES) THEN "Amateur"
    ELSE IF MinutesAtLeast(minutes, OCCASIONAL_MINUTES) THEN "Occasional"
    ELSE "Beginner"

\* Series.fillna(0) on one value
fillna0(value) == IF value = Null THEN <<0>> ELSE value

\* The total_minutes of a customer: missing, none, a long listener's, and
\* the values one millisecond around each threshold
TotalMinutes ==
    {Null, <<0>>, <<2 * MUSIC_LOVER_MINUTES * MillisecondsPerMinute>>} \cup
    {<<t * MillisecondsPerMinute + d>> :
        t \in {OCCASIONAL_MINUTES, AMATEUR_MINUTES, MUSIC_LOVER_MINUTES},
        d \in {-1, 0, 1}}

\* The most rows of a top clients result
MaxProfiledClients == 2

\* customers.py lines 263-271: the query result has no listening_profile
\* column, and the page adds it to a result that has rows
TopClientsListeningProfile ==
    /\ df = NoResult
    /\ \E n \in 1..MaxProfiledClients :
       \E minutes \in [1..n -> TotalMinutes] :
         df' = [query |-> "top_clients", caller |-> "Top Clients view",
                params |-> <<>>,
                rows |-> [i \in 1..n |->
                   [total_minutes |-> minutes[i],
                    listening_profile |->
                       _get_listening_profile(fillna0(minutes[i]))]]]
    /\ UNCHANGED <<dbVars, pageVars>>

(***************************************************************************)
(* C24.  For every number of minutes m, a missing value counting as 0, the *)
(* listening profile is Music Lover when m >= 500, else Amateur when       *)
(* m >= 200, else Occasional when m >= 100, else Beginner; and the         *)
(* definition in the visualization module returns the same label as the    *)
(* page's for every m, missing included.                                   *)
(***************************************************************************)
C24_ListeningProfile ==
    df.caller = "Top Clients view" =>
      \A i \in 1..Len(df.rows) :
        LET row == df.rows[i]
            ms == IF row.total_minutes = Null THEN 0 ELSE row.total_minutes[1]
            label == IF ms >= 30000000 THEN "Music Lover"
                     ELSE IF ms >= 12000000 THEN "Amateur"
                     ELSE IF ms >= 6000000 THEN "Occasional"
                     ELSE "Beginner"
        IN  /\ row.listening_profile = label
            /\ visualization_get_listening_profile(row.total_minutes)
                 = row.listening_profile
            /\ visualization_get_listening_profile(fillna0(row.total_minutes))
                 = _get_listening_profile(row.total_minutes)

\* Exactly 500 minutes is Music Lover, one millisecond less is Amateur, and
\* a missing value is Beginner
C24_Witness ==
    /\ df.caller = "Top Clients view"
    /\ Len(df.rows) = 2
    /\ \E i, j \in 1..2 :
         /\ df.rows[i].total_minutes = <<30000000>>
         /\ df.rows[i].listening_profile = "Music Lover"
         /\ df.rows[j].total_minutes \in {<<29999999>>, Null}
         /\ df.rows[j].listening_profile \in {"Amateur", "Beginner"}

(***************************************************************************)
(* C25.  Once setup_sidebar has completed in a session, the flag           *)
(* finance_sidebar_initialized stays set and the stored period stays what  *)
(* it is: every later run of the Finance page gets the stored (date_from,  *)
(* date_to) from setup_sidebar, which then creates no button and no date   *)
(* input, so the analysis period never changes again in that session.      *)
(***************************************************************************)
\* A step from a state with the flag set keeps the session state, and a
\* sidebar step from such a state renders nothing
PeriodKept ==
    session.finance_sidebar_initialized =>
      /\ session'.finance_sidebar_initialized
      /\ session'.finance_date_from = session.finance_date_from
      /\ session'.finance_date_to = session.finance_date_to
      /\ (page = "finance" /\ pc = "sidebar") =>
           (screen' = screen /\ pc' = "kpis")

C26_FailureCached ==
    /\ (df.caller = "run_sql_query" /\ last_call.made /\ ~last_call.raised
          /\ ~last_call.execution_ok) =>
         /\ <<df.query, Null>> \in DOMAIN cache
         /\ cache[<<df.query, Null>>].columns = {}
         /\ cache[<<df.query, Null>>].rows = <<>>
    /\ (CacheHit /\ cache[<<df.query, Null>>].columns = {}) =>
         /\ df.rows = <<>>
         /\ \A i \in 1..Len(executed) :
              executed[i].section # "free sql query"

\* The count of invoices failed in an earlier run; asked again, with an
\* invoice in the table, it is answered with the stored empty table
C26_Witness ==
    /\ CacheHit
    /\ df.query = SelectCountInvoices
    /\ cache[<<SelectCountInvoices, Null>>].columns = {}
    /\ df.rows = <<>>
    /\ invoice # EmptyBag
    /\ pc = "footer"

(***************************************************************************)
(* C27.  In the SQL Explorer a click on List tables, or on Table           *)
(* statistics, stores either the result table or the error text under its  *)
(* session key, never both, and the display step of the same run removes   *)
(* what was stored: once the display steps are over, and at the end of     *)
(* every run, none of tables_df, tables_df_error, stats_df and             *)
(* stats_df_error is in the session state, and a run shows a listing only  *)
(* when its button was clicked in that run.                                *)
(***************************************************************************)
\* The section sec of the screen shows the element e
Shows(sec, e) ==
    \E i \in 1..Len(screen) : screen[i] = [section |-> sec, element |-> e]

\* The running script sent the statement
Sent(statement) ==
    \E i \in 1..Len(executed) : executed[i].statement = statement

C27_KeysRemoved ==
    /\ ~(Has(session, TABLES_DF_KEY) /\ Has(session, TABLES_DF_ERROR_KEY))
    /\ ~(Has(session, STATS_DF_KEY) /\ Has(session, STATS_DF_ERROR_KEY))
    /\ pc \notin {"table stats button", "tables list"} =>
         (~Has(session, TABLES_DF_KEY) /\ ~Has(session, TABLES_DF_ERROR_KEY))
    /\ pc \notin {"tables list", "table statistics"} =>
         (~Has(session, STATS_DF_KEY) /\ ~Has(session, STATS_DF_ERROR_KEY))
    /\ Shows("tables list", "dataframe") =>
         (Sent("get_tables_list_query") /\ last_call.made)
    /\ Shows("table statistics", "heading") =>
         (Sent("get_table_info_query") /\ last_call.made)

\* A run that listed the tables has reached its footer, and the session
\* state holds none of the keys
C27_Witness ==
    /\ page = "sql" /\ pc = "done"
    /\ Shows("tables list", "dataframe")
    /\ \A key \in {TABLES_DF_KEY, TABLES_DF_ERROR_KEY, STATS_DF_KEY,
                   STATS_DF_ERROR_KEY} : ~Has(session, key)

(***************************************************************************)
(* C28.  In the RFM clustering result a row is Others exactly when         *)
(* 90 < recency_days <= 180 and frequency < 2; a row is New Customers only *)
(* when its frequency is below 2; and a customer with frequency 2 and      *)
(* recency_days <= 90, who satisfies the condition of New Customers        *)
(* (frequency < 3), is always Potential Loyalists.                         *)
(***************************************************************************)
C28_OthersAndNewCustomers ==
    df.query = "rfm_clustering" =>
      \A row \in df.rows :
        /\ row.rfm_cluster = "Others" <=>
             (90 < row.recency_days /\ row.recency_days <= 180
                /\ row.frequency < 2)
        /\ row.rfm_cluster = "New Customers" => row.frequency < 2
        /\ (row.frequency = 2 /\ row.recency_days <= 90) =>
             row.rfm_cluster = "Potential Loyalists"

\* One customer has two invoices, the last 90 days ago, and is Potential
\* Loyalists; the other has one invoice 91 days ago and is Others
C28_Witness ==
    /\ df.query = "rfm_clustering"
    /\ \E row \in df.rows :
         /\ row.frequency = 2 /\ row.recency_days = 90
         /\ row.rfm_cluster = "Potential Loyalists"
    /\ \E row \in df.rows :
         /\ row.frequency = 1 /\ row.recency_days = 91
         /\ row.rfm_cluster = "Others"

(***************************************************************************)
(* C29.  With the thresholds the Alerts page binds (at most 3 sales for    *)
(* tracks, at most 5 for albums) no displayed row is Normal: a track row   *)
(* is No Sales, Low Sales, or Below Average, the last only at exactly 3    *)
(* sales; an album row is No Sales, Low Sales, or Below Average, the last  *)
(* only at exactly 5 sales.                                                *)
(***************************************************************************)
C29_NoNormalRow ==
    df.caller = "Alerts page" =>
      \A i \in 1..Len(df.rows) :
        LET row == df.rows[i]
        IN  /\ row.alert_level \in {"No Sales", "Low Sales", "Below Average"}
            /\ df.query = "low_performance_tracks" =>
                 (row.alert_level = "Below Average" <=> row.total_sales = 3)
            /\ df.query = "low_performance_albums" =>
                 (row.alert_level = "Below Average" <=> row.total_sales = 5)

\* The page's track table has a track with 3 sales, Below Average, next to
\* one with fewer, and a track with more sales is not in it
C29_Witness ==
    /\ df.caller = "Alerts page" /\ df.query = "low_performance_tracks"
    /\ Len(df.rows) = 2
    /\ df.rows[1].alert_level = "Low Sales"
    /\ df.rows[2].total_sales = 3 /\ df.rows[2].alert_level = "Below Average"

(***************************************************************************)
(* employees.py, All Employees table: the hierarchy listing merged with    *)
(* the sales by employee on employee_name (how="left"), missing figures    *)
(* filled with 0, sorted by total revenue, numbered.  An employee is       *)
(* [employee_id, employee_name, total_revenue], the revenue being that of  *)
(* the invoices of the employee's customers in the period, in cents.       *)
(***************************************************************************)
\* first_name || ' ' || last_name of the employees
EmployeeNames == {"Jane Peacock", "Steve Johnson"}

MaxEmployees == 2

\* The contents of the employee table with the sales of each employee
EmployeeTables ==
    UNION {{t \in [1..n -> [employee_id : 1..n, employee_name : EmployeeNames,
                            total_revenue : {0, 1000, 2000}]] :
              \A i \in 1..n : t[i].employee_id = i} :
           n \in 1..MaxEmployees}

\* get_sales_by_employee_query: one row per employee (LEFT JOIN from
\* employee, GROUP BY e.employee_id), ORDER BY total_revenue DESC; the page
\* passes the columns employee_name and the figures to merge
SalesByEmployee(employee) ==
    {[i \in 1..Len(s) |-> [employee_name |-> s[i].employee_name,
                           total_revenue |-> <<s[i].total_revenue>>]] :
        s \in sort_values(employee, "total_revenue")}

\* get_team_hierarchy_query: one row per employee; with no reports_to the
\* order is that of employee_id
TeamHierarchy(employee) ==
    [i \in 1..Len(employee) |->
        [employee_id |-> employee[i].employee_id,
         employee_name |-> employee[i].employee_name]]

\* left.merge(right, on="employee_name", how="left"): each row of left with
\* each row of right of the same name, in right's order, or with NaN
RECURSIVE merge(_, _)
merge(left, right) ==
    IF left = <<>> THEN <<>>
    ELSE LET row == Head(left)
             matches == SelectSeq(right,
                          LAMBDA r : r.employee_name = row.employee_name)
         IN  (IF matches = <<>>
              THEN <<[employee_id |-> row.employee_id,
                      employee_name |-> row.employee_name,
                      total_revenue |-> Null]>>
              ELSE [i \in 1..Len(matches) |->
                      [employee_id |-> row.employee_id,
                       employee_name |-> row.employee_name,
                       total_revenue |-> matches[i].total_revenue]])
             \o merge(Tail(left), right)

\* employees.py lines 185-247, both queries having returned their rows
AllEmployeesTable ==
    /\ df = NoResult
    /\ \E employee \in EmployeeTables :
       \E sales_df \in SalesByEmployee(employee) :
         LET hierarchy_df == TeamHierarchy(employee)
             merged == merge(hierarchy_df, sales_df)
             all_employees_df ==
                [i \in 1..Len(merged) |->
                   [employee_id |-> merged[i].employee_id,
                    employee_name |-> merged[i].employee_name,
                    total_revenue |-> fillna0(merged[i].total_revenue)[1]]]
         IN  \E display_df \in sort_values(all_employees_df, "total_revenue") :
               df' = [query |-> "all_employees",
                      caller |-> "All Employees table",
                      params |-> <<employee>>,
                      rows |-> _create_data_table(display_df)]
    /\ UNCHANGED <<dbVars, pageVars>>

(***************************************************************************)
(* C30.  The All Employees table has exactly one row per employee of the   *)
(* hierarchy listing, and the row of an employee carries that employee's   *)
(* own sales figures, 0 without sales, for every content of the employee   *)
(* table, two employees with the same first and last name included.        *)
(***************************************************************************)
C30_OneRowPerEmployee ==
    df.caller = "All Employees table" =>
      LET employee == df.params[1]
      IN  /\ Len(df.rows) = Len(employee)
          /\ \A e \in 1..Len(employee) :
               \E i \in 1..Len(df.rows) :
                 /\ df.rows[i].row.employee_id = employee[e].employee_id
                 /\ df.rows[i].row.total_revenue = employee[e].total_revenue
                 /\ \A j \in 1..Len(df.rows) :
                      df.rows[j].row.employee_id = employee[e].employee_id
                        => j = i

\* The table is as stated whenever no two employees have the same name
C30_DistinctNames ==
    (df.caller = "All Employees table"
       /\ \A i, j \in 1..Len(df.params[1]) :
            df.params[1][i].employee_name = df.params[1][j].employee_name
              => i = j)
      => C30_OneRowPerEmployee

(***************************************************************************)
(* Specifications: one per query family, each over the rows its claims     *)
(* need.                                                                   *)
(***************************************************************************)
NextRfm == InsertRfmInvoice \/ ClusteringView \/ EndRun

SpecRfm == Init /\ [][NextRfm]_vars

NextChurn == InsertChurnInvoice \/ RunChurnQuery \/ ChurnAnalysisView \/ EndRun

SpecChurn == Init /\ [][NextChurn]_vars

NextRevenue == InsertRevenueInvoice \/ RunRevenueAnomaliesQuery \/ EndRun

SpecRevenue == Init /\ [][NextRevenue]_vars

NextFraud == RunFraudDetectionQuery \/ EndRun

SpecFraud == InitFraud /\ [][NextFraud]_vars

NextLowPerformance ==
    SellTrack \/ RunLowPerformanceTracksQuery \/ RunLowPerformanceAlbumsQuery
        \/ EndRun

SpecLowPerformance == Init /\ [][NextLowPerformance]_vars

NextProfile == create_musical_profile_chart \/ EndRun

SpecProfile == Init /\ [][NextProfile]_vars

NextOrder == RunTrackPerformanceQuery \/ RunRfmClusteringQuery \/ EndRun

SpecOrder == InitOrder /\ [][NextOrder]_vars

NextDates ==
    \/ InsertDateInvoice \/ RunCustomerJourneyQuery \/ RunTrendAnalysisQuery
    \/ RunCohortAnalysisQuery \/ EndRun

SpecDates == Init /\ [][NextDates]_vars

NextRank == SellTrack \/ RankByDiversity \/ AlertsTracksTable \/ EndRun

SpecRank == Init /\ [][NextRank]_vars

NextSummary == InsertSummaryInvoice \/ ClusterSummaryTable \/ EndRun

SpecSummary == Init /\ [][NextSummary]_vars

NextScenario == InsertScenarioInvoice \/ ClusteringView \/ EndRun

SpecScenario == Init /\ [][NextScenario]_vars

NextListening == TopClientsListeningProfile \/ EndRun

SpecListening == Init /\ [][NextListening]_vars

NextEmployees == AllEmployeesTable \/ EndRun

SpecEmployees == Init /\ [][NextEmployees]_vars

NextCharts ==
    \/ create_musical_profile_chart \/ RenderAnomalyChart
    \/ RenderAlertHeatmap \/ RenderDurationDistribution
    \/ RenderGeographicPieChart \/ RenderChurnHistogram \/ EndRun

SpecCharts == Init /\ [][NextCharts]_vars

NextPages ==
    \/ AlertsHeader \/ AlertsTracksSection \/ AlertsAlbumsSection
    \/ FinanceHeader \/ setup_sidebar \/ display_financial_kpis
    \/ display_financial_evolution \/ display_geographic_analysis
    \/ display_invoice_analysis \/ display_temporal_analysis
    \/ display_basket_analysis \/ RenderFooter \/ EndScriptRun
    \/ MusicHeader \/ MusicTracksAlbumsView
    \/ CustomersHeader \/ CustomersClusteringView
    \/ SqlExplorerHeader \/ _handle_list_tables_button
    \/ _handle_table_stats_button \/ _display_tables_list
    \/ _display_table_statistics \/ _display_sql_query_section

\* The process may or may not be able to build an engine; the database
\* holds one invoice
InitPages ==
    /\ invoice = SetToBag({InvoiceRow(1, 91, 800, 1)})
    /\ track_sales = [t \in Tracks |-> 0]
    /\ df = NoResult
    /\ InitPage
    /\ engine_built \in BOOLEAN

SpecPages == InitPages /\ [][NextPages]_vars

====
